---------------------------- MODULE Spec2Model ----------------------------
(***************************************************************************)
(* A model of the Langfuse Go SDK (src/langfuse.go) and of its example     *)
(* programs.  Strings the code inspects (URLs, credentials) are sequences  *)
(* of one-character strings; strings the code only passes along (names,    *)
(* attribute keys, releases) are TLA+ strings.                             *)
(***************************************************************************)
EXTENDS Integers, Sequences, FiniteSets, TLC

VARIABLES
    clients,    \* the *Client values NewClient has returned
    providers,  \* the trace.TracerProvider values created (with their exporter)
    exporters,  \* the OTLP exporters created
    global,     \* the process-wide tracer provider (otel.SetTracerProvider); 0 = the default
    call,       \* the arguments of the most recent NewClient call
    result,     \* what that call returned: (client, err)
    printed,    \* the debug lines that call wrote to standard output
    spans,      \* the OpenTelemetry spans started, in order of creation
    traces,     \* the *Trace values CreateTrace has returned
    obs,        \* the *Span, *Generation and *Event values returned
    prog,       \* the example program running ("none": the API is driven freely)
    pc,         \* the example program's position (its next statement); for
                \* base64Encode, 0 before the call and 1 after it
    locals,     \* the example program's local variables
    defers,     \* the example program's deferred calls (last is run first)
    env,        \* the example program's environment variables
    data,       \* base64Encode: the input bytes
    out         \* base64Encode: the returned string

apiVars == <<clients, providers, exporters, global, call, result, printed,
             spans, traces, obs>>
vars == <<clients, providers, exporters, global, call, result, printed,
          spans, traces, obs, prog, pc, locals, defers, env, data, out>>

(***************************************************************************)
(* Bounds of the model.                                                    *)
(***************************************************************************)
MaxClients == 2
MaxSpans == 2
MaxNestSpans == 4
MaxObs == 1
MaxConfigClients == 2
MaxDataLen == 5
MaxCalls == 1

(***************************************************************************)
(* Strings as sequences of characters.                                     *)
(***************************************************************************)
Str0 == << >>

HasPrefix(s, p) == Len(s) >= Len(p) /\ SubSeq(s, 1, Len(p)) = p

\* strings.Index / strings.LastIndex for a one-character needle; 0 = not found
Index(s, c) ==
    IF \E i \in 1..Len(s) : s[i] = c
    THEN CHOOSE i \in 1..Len(s) : s[i] = c /\ \A j \in 1..(i-1) : s[j] # c
    ELSE 0

LastIndex(s, c) ==
    IF \E i \in 1..Len(s) : s[i] = c
    THEN CHOOSE i \in 1..Len(s) : s[i] = c /\ \A j \in (i+1)..Len(s) : s[j] # c
    ELSE 0

Drop(s, n) == SubSeq(s, n + 1, Len(s))
Take(s, n) == SubSeq(s, 1, n)

LowerLetters == {"a","b","c","d","e","f","g","h","i","j","k","l","m",
                 "n","o","p","q","r","s","t","u","v","w","x","y","z"}
UpperLetters == {"A","B","C","D","E","F","G","H","I","J","K","L","M",
                 "N","O","P","Q","R","S","T","U","V","W","X","Y","Z"}
Digits == {"0","1","2","3","4","5","6","7","8","9"}

LowerTable == <<"a","b","c","d","e","f","g","h","i","j","k","l","m",
                "n","o","p","q","r","s","t","u","v","w","x","y","z">>
UpperTable == <<"A","B","C","D","E","F","G","H","I","J","K","L","M",
                "N","O","P","Q","R","S","T","U","V","W","X","Y","Z">>

ToLowerChar(c) ==
    IF c \in UpperLetters
    THEN LowerTable[CHOOSE i \in 1..Len(UpperTable) : UpperTable[i] = c]
    ELSE c

ToLower(s) == [i \in 1..Len(s) |-> ToLowerChar(s[i])]

(***************************************************************************)
(* base64Encode and encodeBasicAuth (src/langfuse.go:518-556).             *)
(* Bytes are 0..255; the shifts and masks are the code's.                  *)
(***************************************************************************)
base64Chars ==
    <<"A","B","C","D","E","F","G","H","I","J","K","L","M",
      "N","O","P","Q","R","S","T","U","V","W","X","Y","Z",
      "a","b","c","d","e","f","g","h","i","j","k","l","m",
      "n","o","p","q","r","s","t","u","v","w","x","y","z",
      "0","1","2","3","4","5","6","7","8","9","+","/">>

RECURSIVE Pow2(_)
Pow2(n) == IF n = 0 THEN 1 ELSE 2 * Pow2(n - 1)

Shr(b, n) == b \div Pow2(n)
\* a shift left of a Go byte keeps the low eight bits
Shl(b, n) == (b * Pow2(n)) % 256

RECURSIVE BitAnd(_, _)
BitAnd(a, b) ==
    IF a = 0 \/ b = 0 THEN 0
    ELSE (IF a % 2 = 1 /\ b % 2 = 1 THEN 1 ELSE 0) + 2 * BitAnd(a \div 2, b \div 2)

RECURSIVE BitOr(_, _)
BitOr(a, b) ==
    IF a = 0 THEN b
    ELSE IF b = 0 THEN a
    ELSE (IF a % 2 = 1 \/ b % 2 = 1 THEN 1 ELSE 0) + 2 * BitOr(a \div 2, b \div 2)

\* base64Chars[i] of the code: the code's index is 0-based
B64Char(i) == base64Chars[i + 1]

\* one iteration of the loop at src/langfuse.go:529-553, for offset i (0-based)
Base64GroupPadSwapped(d, i) ==
    LET n  == Len(d)
        b1 == d[i + 1]
        b2 == IF i + 1 < n THEN d[i + 2] ELSE 0
        b3 == IF i + 2 < n THEN d[i + 3] ELSE 0
    IN  << B64Char(BitAnd(Shr(b1, 2), 63)),
           B64Char(BitOr(Shl(BitAnd(b1, 3), 4), BitAnd(Shr(b2, 4), 15))),
           IF i + 2 < n
             THEN B64Char(BitOr(Shl(BitAnd(b2, 15), 2), BitAnd(Shr(b3, 6), 3)))
             ELSE "=",
           IF i + 1 < n THEN B64Char(BitAnd(b3, 63)) ELSE "=" >>

Base64Group(d, i) ==
    LET n  == Len(d)
        b1 == d[i + 1]
        b2 == IF i + 1 < n THEN d[i + 2] ELSE 0
        b3 == IF i + 2 < n THEN d[i + 3] ELSE 0
    IN  << B64Char(BitAnd(Shr(b1, 2), 63)),
           B64Char(BitOr(Shl(BitAnd(b1, 3), 4), BitAnd(Shr(b2, 4), 15))),
           IF i + 1 < n
             THEN B64Char(BitOr(Shl(BitAnd(b2, 15), 2), BitAnd(Shr(b3, 6), 3)))
             ELSE "=",
           IF i + 2 < n THEN B64Char(BitAnd(b3, 63)) ELSE "=" >>

RECURSIVE Base64From(_, _)
Base64From(d, i) ==
    IF i < Len(d) THEN Base64Group(d, i) \o Base64From(d, i + 3) ELSE << >>

base64Encode(d) == Base64From(d, 0)

\* the printable ASCII characters, in code order from 32 (space) to 126 (~);
\* code 96 (the grave accent) is written by name
AsciiPrintable ==
    <<" ","!","\"","#","$","%","&","'","(",")","*","+",",","-",".","/",
      "0","1","2","3","4","5","6","7","8","9",":",";","<","=",">","?",
      "@","A","B","C","D","E","F","G","H","I","J","K","L","M","N","O",
      "P","Q","R","S","T","U","V","W","X","Y","Z","[","\\","]","^","_",
      "grave","a","b","c","d","e","f","g","h","i","j","k","l","m","n","o",
      "p","q","r","s","t","u","v","w","x","y","z","{","|","}","~">>

\* []byte(s): the bytes of an ASCII string.  The control characters are
\* codes 0 to 31 and 127; those with no escape are written by name.
ByteOf(c) ==
    LET ascii == <<"NUL","SOH","STX","ETX","EOT","ENQ","ACK","BEL",
                   "BS","\t","\n","VT","\f","\r","SO","SI",
                   "DLE","DC1","DC2","DC3","DC4","NAK","SYN","ETB",
                   "CAN","EM","SUB","ESC","FS","GS","RS","US">>
                   \o AsciiPrintable \o <<"DEL">>
    IN  (CHOOSE i \in 1..Len(ascii) : ascii[i] = c) - 1
Bytes(s) == [i \in 1..Len(s) |-> ByteOf(s[i])]

encodeBasicAuth(username, password) ==
    base64Encode(Bytes(username \o <<":">> \o password))

(***************************************************************************)
(* net/url.Parse, as NewClient uses it (src/langfuse.go:104): the scheme,  *)
(* the authority (user information, host, port), the path, the query and   *)
(* the fragment.  Inputs hold no '%' escape and no '[' (IPv6 literal).     *)
(***************************************************************************)
NoErr == ""

Letters == LowerLetters \cup UpperLetters

\* stringContainsCTLByte: a byte below 0x20, or 0x7f (the characters ByteOf
\* gives these codes)
ContainsCTL(s) ==
    \E i \in 1..Len(s) :
        s[i] \in {"NUL","SOH","STX","ETX","EOT","ENQ","ACK","BEL",
                  "BS","\t","\n","VT","\f","\r","SO","SI",
                  "DLE","DC1","DC2","DC3","DC4","NAK","SYN","ETB",
                  "CAN","EM","SUB","ESC","FS","GS","RS","US","DEL"}

\* getScheme: the index of the first character that ends the scheme scan, 0 if none
SchemeStop(s) ==
    LET stops(i) == ~(s[i] \in Letters \/ (i > 1 /\ s[i] \in Digits \cup {"+", "-", "."}))
    IN  IF \E i \in 1..Len(s) : stops(i)
        THEN CHOOSE i \in 1..Len(s) : stops(i) /\ \A j \in 1..(i-1) : ~stops(j)
        ELSE 0

getScheme(s) ==
    LET k == SchemeStop(s)
    IN  IF k = 0 \/ s[k] # ":" THEN [err |-> NoErr, scheme |-> Str0, rest |-> s]
        ELSE IF k = 1 THEN [err |-> "missing protocol scheme", scheme |-> Str0, rest |-> Str0]
        ELSE [err |-> NoErr, scheme |-> Take(s, k - 1), rest |-> Drop(s, k)]

\* validOptionalPort: "" or ":" followed by digits only
validOptionalPort(port) ==
    \/ port = Str0
    \/ port[1] = ":" /\ \A i \in 2..Len(port) : port[i] \in Digits

validUserinfo(s) ==
    \A i \in 1..Len(s) : s[i] \in Letters \cup Digits \cup
             {"-",".","_",":","~","!","$","&","'","(",")","*","+",",",";","=","%","@"}

\* parseHost: the port after the last colon must be valid, and every
\* character must be one a host may hold unescaped
parseHost(host) ==
    LET i == LastIndex(host, ":")
    IN  IF i # 0 /\ ~validOptionalPort(Drop(host, i - 1))
        THEN [err |-> "invalid port after host", host |-> Str0]
        ELSE IF \E j \in 1..Len(host) : host[j] \notin Letters \cup Digits \cup
                   {"!","$","&","'","(",")","*","+",",",";","=",":","[","]","<",">","\"","-","_",".","~"}
        THEN [err |-> "invalid character in host name", host |-> Str0]
        ELSE [err |-> NoErr, host |-> host]

parseAuthority(authority) ==
    LET i == LastIndex(authority, "@")
        h == parseHost(Drop(authority, i))
    IN  IF h.err # NoErr THEN h
        ELSE IF i # 0 /\ ~validUserinfo(Take(authority, i - 1))
        THEN [err |-> "invalid userinfo", host |-> Str0]
        ELSE h

\* strings.Cut(s, c): the parts before and after the first c
CutBefore(s, c) == IF Index(s, c) = 0 THEN s ELSE Take(s, Index(s, c) - 1)
CutAfter(s, c) == IF Index(s, c) = 0 THEN Str0 ELSE Drop(s, Index(s, c))

Parse(rawURL) ==
    LET u     == CutBefore(rawURL, "#")
        frag  == CutAfter(rawURL, "#")
        sch   == getScheme(u)
        rest1 == CutBefore(sch.rest, "?")
        query == CutAfter(sch.rest, "?")
        fail(e) == [err |-> e, Scheme |-> Str0, Host |-> Str0, Path |-> Str0,
                    Opaque |-> Str0, RawQuery |-> Str0, Fragment |-> Str0]
    IN  IF ContainsCTL(u) THEN fail("invalid control character in URL")
        ELSE IF sch.err # NoErr THEN fail(sch.err)
        ELSE IF ~HasPrefix(rest1, <<"/">>) /\ sch.scheme # Str0
        THEN [err |-> NoErr, Scheme |-> ToLower(sch.scheme), Host |-> Str0,
              Path |-> Str0, Opaque |-> rest1, RawQuery |-> query, Fragment |-> frag]
        ELSE IF ~HasPrefix(rest1, <<"/">>) /\ Index(CutBefore(rest1, "/"), ":") # 0
        THEN fail("first path segment in URL cannot contain colon")
        ELSE IF HasPrefix(rest1, <<"/", "/">>)
                  /\ (sch.scheme # Str0 \/ ~HasPrefix(rest1, <<"/", "/", "/">>))
        THEN LET auth0 == Drop(rest1, 2)
                 auth  == CutBefore(auth0, "/")
                 path  == IF Index(auth0, "/") = 0 THEN Str0
                          ELSE Drop(auth0, Index(auth0, "/") - 1)
                 a     == parseAuthority(auth)
             IN  IF a.err # NoErr THEN fail(a.err)
                 ELSE [err |-> NoErr, Scheme |-> ToLower(sch.scheme), Host |-> a.host,
                       Path |-> path, Opaque |-> Str0, RawQuery |-> query,
                       Fragment |-> frag]
        ELSE [err |-> NoErr, Scheme |-> ToLower(sch.scheme), Host |-> Str0,
              Path |-> rest1, Opaque |-> Str0, RawQuery |-> query, Fragment |-> frag]

(***************************************************************************)
(* NewClient (src/langfuse.go:88-165).                                     *)
(***************************************************************************)
SchemeHTTP == <<"h","t","t","p",":","/","/">>
SchemeHTTPS == <<"h","t","t","p","s",":","/","/">>
DefaultBaseURL ==
    SchemeHTTPS \o <<"c","l","o","u","d",".","l","a","n","g","f","u","s","e",".","c","o","m">>
TracesURLPath == "/api/public/otel/v1/traces"
BasicPrefix == <<"B","a","s","i","c"," ">>

ErrCredentials == "public key and secret key are required"
ErrBaseURL == "invalid base URL"
ErrExporter == "failed to create OTLP exporter"

\* src/langfuse.go:90
CredentialsMissingOnlyPublic(config) == config.PublicKey = Str0

CredentialsMissing(config) == config.PublicKey = Str0 \/ config.SecretKey = Str0

\* src/langfuse.go:94-96: config.BaseURL after the default is applied
DefaultedAlways(config) == DefaultBaseURL

Defaulted(config) == IF config.BaseURL = Str0 THEN DefaultBaseURL ELSE config.BaseURL

\* src/langfuse.go:99-102
\* a prefix test that takes HTTP:// and Https:// for schemes too
WithSchemeAnyCase(baseURL) ==
    IF ~HasPrefix(ToLower(baseURL), SchemeHTTP) /\ ~HasPrefix(ToLower(baseURL), SchemeHTTPS)
    THEN SchemeHTTPS \o baseURL
    ELSE baseURL

WithScheme(baseURL) ==
    IF ~HasPrefix(baseURL, SchemeHTTP) /\ ~HasPrefix(baseURL, SchemeHTTPS)
    THEN SchemeHTTPS \o baseURL
    ELSE baseURL

\* an endpoint that keeps the path of the base URL
ExporterOptionsWithPath(config, u) ==
    [ endpoint |-> u.Host \o u.Path,
      urlPath  |-> TracesURLPath,
      headers  |-> [Authorization |->
                       BasicPrefix \o encodeBasicAuth(config.PublicKey, config.SecretKey)],
      insecure |-> (u.Scheme = <<"h","t","t","p">>) ]

\* src/langfuse.go:114-131: what the exporter options configure
ExporterOptions(config, u) ==
    [ endpoint |-> u.Host,
      urlPath  |-> TracesURLPath,
      headers  |-> [Authorization |->
                       BasicPrefix \o encodeBasicAuth(config.PublicKey, config.SecretKey)],
      insecure |-> (u.Scheme = <<"h","t","t","p">>) ]

NoExporter == [endpoint |-> Str0, urlPath |-> "", headers |-> [Authorization |-> Str0],
               insecure |-> FALSE]

\* The run of NewClient on (config, exporterOk), exporterOk being whether
\* otlptracehttp.New succeeds: what it returns and which effects it reaches.
NewClientRunKeepsGoing(config, exporterOk) ==
    LET baseURL == WithScheme(Defaulted(config))
        u == Parse(baseURL)
        stop(e, c, n, lines) ==
            [err |-> e, cause |-> c, attempts |-> n, printed |-> lines,
             exporter |-> NoExporter, exporterCreated |-> FALSE,
             providerCreated |-> FALSE, installed |-> FALSE, baseURL |-> Str0]
    IN  IF CredentialsMissing(config) THEN stop(ErrCredentials, "", 0, << >>)
        ELSE IF u.err # NoErr THEN stop(ErrBaseURL, u.err, 0, << >>)
        ELSE [err |-> NoErr, cause |-> "", attempts |-> 1,
              printed |-> <<baseURL, u.Scheme, u.Host, u.Host>>,
              exporter |-> ExporterOptions(config, u), exporterCreated |-> exporterOk,
              providerCreated |-> TRUE, installed |-> TRUE,
              baseURL |-> Defaulted(config)]

NewClientRunNoInstall(config, exporterOk) ==
    LET baseURL == WithScheme(Defaulted(config))
        u == Parse(baseURL)
        stop(e, c, n, lines) ==
            [err |-> e, cause |-> c, attempts |-> n, printed |-> lines,
             exporter |-> NoExporter, exporterCreated |-> FALSE,
             providerCreated |-> FALSE, installed |-> FALSE, baseURL |-> Str0]
    IN  IF CredentialsMissing(config) THEN stop(ErrCredentials, "", 0, << >>)
        ELSE IF u.err # NoErr THEN stop(ErrBaseURL, u.err, 0, << >>)
        ELSE IF ~exporterOk
        THEN stop(ErrExporter, "otlptracehttp.New", 1, <<baseURL, u.Scheme, u.Host, u.Host>>)
        ELSE [err |-> NoErr, cause |-> "", attempts |-> 1,
              printed |-> <<baseURL, u.Scheme, u.Host, u.Host>>,
              exporter |-> ExporterOptions(config, u), exporterCreated |-> TRUE,
              providerCreated |-> TRUE, installed |-> FALSE,
              baseURL |-> Defaulted(config)]

NewClientRun(config, exporterOk) ==
    LET baseURL == WithScheme(Defaulted(config))
        u == Parse(baseURL)
        stop(e, c, n, lines) ==
            [err |-> e, cause |-> c, attempts |-> n, printed |-> lines,
             exporter |-> NoExporter, exporterCreated |-> FALSE,
             providerCreated |-> FALSE, installed |-> FALSE, baseURL |-> Str0]
    IN  IF CredentialsMissing(config) THEN stop(ErrCredentials, "", 0, << >>)
        ELSE IF u.err # NoErr THEN stop(ErrBaseURL, u.err, 0, << >>)
        ELSE IF ~exporterOk
        THEN stop(ErrExporter, "otlptracehttp.New", 1, <<baseURL, u.Scheme, u.Host, u.Host>>)
        ELSE [err |-> NoErr, cause |-> "", attempts |-> 1,
              printed |-> <<baseURL, u.Scheme, u.Host, u.Host>>,
              exporter |-> ExporterOptions(config, u), exporterCreated |-> TRUE,
              providerCreated |-> TRUE, installed |-> TRUE,
              baseURL |-> Defaulted(config)]

NewClient(config, exporterOk) ==
    \E r \in {NewClientRun(config, exporterOk)} :
        /\ call' = [made |-> TRUE, config |-> config, exporterOk |-> exporterOk]
        /\ printed' = r.printed
        /\ exporters' = IF r.exporterCreated THEN Append(exporters, r.exporter)
                        ELSE exporters
        /\ providers' = IF r.providerCreated
                        THEN Append(providers, [exporter |-> Len(exporters'),
                                                resource |-> "langfuse-go-sdk",
                                                shutdown |-> FALSE])
                        ELSE providers
        /\ global' = IF r.installed THEN Len(providers') ELSE global
        /\ clients' = IF r.err = NoErr
                      THEN Append(clients,
                             [ provider    |-> Len(providers'),
                               tracer      |-> Len(providers'),
                               publicKey   |-> config.PublicKey,
                               secretKey   |-> config.SecretKey,
                               baseURL     |-> r.baseURL,
                               release     |-> config.Release,
                               environment |-> config.Environment,
                               isPublic    |-> config.IsPublic ])
                      ELSE clients
        /\ result' = [client |-> IF r.err = NoErr THEN Len(clients') ELSE 0,
                      err |-> r.err, cause |-> r.cause, attempts |-> r.attempts]
        /\ UNCHANGED <<spans, traces, obs>>

(***************************************************************************)
(* The attribute names the SDK writes (character by character, so that a   *)
(* name built from a prefix and a caller's key is compared as the code's   *)
(* string would be).                                                       *)
(***************************************************************************)
\* "langfuse.release" (src/langfuse.go:187)
KeyRelease ==
    <<"l","a","n","g","f","u","s","e",".","r","e","l","e","a","s","e">>

\* "langfuse.environment" (src/langfuse.go:190)
KeyEnvironment ==
    <<"l","a","n","g","f","u","s","e",".","e","n","v","i","r","o","n","m",
      "e","n","t">>

\* "langfuse.trace.public" (src/langfuse.go:193)
KeyPublic ==
    <<"l","a","n","g","f","u","s","e",".","t","r","a","c","e",".","p","u",
      "b","l","i","c">>

\* "langfuse.user.id" (src/langfuse.go:219)
KeyUserID ==
    <<"l","a","n","g","f","u","s","e",".","u","s","e","r",".","i","d">>

\* "langfuse.session.id" (src/langfuse.go:226)
KeySessionID ==
    <<"l","a","n","g","f","u","s","e",".","s","e","s","s","i","o","n",".",
      "i","d">>

\* "langfuse.trace.tags" (src/langfuse.go:234)
KeyTags ==
    <<"l","a","n","g","f","u","s","e",".","t","r","a","c","e",".","t","a",
      "g","s">>

\* "langfuse.trace.metadata." (src/langfuse.go:243)
PrefixTraceMetadata ==
    <<"l","a","n","g","f","u","s","e",".","t","r","a","c","e",".","m","e",
      "t","a","d","a","t","a",".">>

\* "langfuse.trace.input" (src/langfuse.go:253)
KeyTraceInput ==
    <<"l","a","n","g","f","u","s","e",".","t","r","a","c","e",".","i","n",
      "p","u","t">>

\* "langfuse.trace.output" (src/langfuse.go:261)
KeyTraceOutput ==
    <<"l","a","n","g","f","u","s","e",".","t","r","a","c","e",".","o","u",
      "t","p","u","t">>

\* "langfuse.observation.metadata." (src/langfuse.go:285, 464)
PrefixObservationMetadata ==
    <<"l","a","n","g","f","u","s","e",".","o","b","s","e","r","v","a","t",
      "i","o","n",".","m","e","t","a","d","a","t","a",".">>

\* "langfuse.observation.input" (src/langfuse.go:295, 395, 474)
KeyInput ==
    <<"l","a","n","g","f","u","s","e",".","o","b","s","e","r","v","a","t",
      "i","o","n",".","i","n","p","u","t">>

\* "langfuse.observation.output" (src/langfuse.go:303, 403)
KeyOutput ==
    <<"l","a","n","g","f","u","s","e",".","o","b","s","e","r","v","a","t",
      "i","o","n",".","o","u","t","p","u","t">>

\* "langfuse.observation.level" (src/langfuse.go:310, 481)
KeyLevel ==
    <<"l","a","n","g","f","u","s","e",".","o","b","s","e","r","v","a","t",
      "i","o","n",".","l","e","v","e","l">>

\* "langfuse.observation.type" (src/langfuse.go:329, 429, 500)
KeyType ==
    <<"l","a","n","g","f","u","s","e",".","o","b","s","e","r","v","a","t",
      "i","o","n",".","t","y","p","e">>

\* "langfuse.observation.model.name" (src/langfuse.go:363)
KeyModel ==
    <<"l","a","n","g","f","u","s","e",".","o","b","s","e","r","v","a","t",
      "i","o","n",".","m","o","d","e","l",".","n","a","m","e">>

\* "langfuse.observation.usage_details" (src/langfuse.go:371)
KeyUsage ==
    <<"l","a","n","g","f","u","s","e",".","o","b","s","e","r","v","a","t",
      "i","o","n",".","u","s","a","g","e","_","d","e","t","a","i","l","s">>

\* "langfuse.observation.cost_details" (src/langfuse.go:379)
KeyCost ==
    <<"l","a","n","g","f","u","s","e",".","o","b","s","e","r","v","a","t",
      "i","o","n",".","c","o","s","t","_","d","e","t","a","i","l","s">>

\* "langfuse.observation.model.parameters" (src/langfuse.go:387)
KeyParams ==
    <<"l","a","n","g","f","u","s","e",".","o","b","s","e","r","v","a","t",
      "i","o","n",".","m","o","d","e","l",".","p","a","r","a","m","e","t",
      "e","r","s">>

\* "langfuse.observation.completion_start_time" (src/langfuse.go:410)
KeyCompletionStart ==
    <<"l","a","n","g","f","u","s","e",".","o","b","s","e","r","v","a","t",
      "i","o","n",".","c","o","m","p","l","e","t","i","o","n","_","s","t",
      "a","r","t","_","t","i","m","e">>

\* "langfuse.observation.prompt.name" (src/langfuse.go:418)
KeyPromptName ==
    <<"l","a","n","g","f","u","s","e",".","o","b","s","e","r","v","a","t",
      "i","o","n",".","p","r","o","m","p","t",".","n","a","m","e">>

\* "langfuse.observation.prompt.version" (src/langfuse.go:419)
KeyPromptVersion ==
    <<"l","a","n","g","f","u","s","e",".","o","b","s","e","r","v","a","t",
      "i","o","n",".","p","r","o","m","p","t",".","v","e","r","s","i","o",
      "n">>

(***************************************************************************)
(* encoding/json.Marshal on the values the options are given.  An encoded  *)
(* text is a sequence of tokens; the empty sequence is the empty string,   *)
(* which is what string(nil) gives when Marshal returns an error (every    *)
(* option discards that error).                                            *)
(***************************************************************************)
JMember(key, value) == <<key, value>>

\* the members of a struct whose fields are all tagged omitempty, each field
\* given as <<name, value, whether the value is the empty value of its type>>:
\* an empty field is left out
RECURSIVE OmitEmpty(_)
OmitEmpty(fields) ==
    IF fields = << >> THEN << >>
    ELSE (IF Head(fields)[3] THEN << >>
          ELSE <<JMember(Head(fields)[1], Head(fields)[2])>>)
             \o OmitEmpty(Tail(fields))

\* a float64 is [nan |-> BOOLEAN, micro |-> Int]: not-a-number (or infinite),
\* or the amount in millionths
Float(n) == [nan |-> FALSE, micro |-> n]
FloatNaN == [nan |-> TRUE, micro |-> 0]
FloatIsZero(f) == ~f.nan /\ f.micro = 0

\* a Usage whose fields had no omitempty tag
MarshalUsageKeepZero(usage) ==
    <<"{">>
      \o << JMember("prompt_tokens", usage.PromptTokens),
            JMember("completion_tokens", usage.CompletionTokens),
            JMember("total_tokens", usage.TotalTokens) >>
      \o <<"}">>

\* json.Marshal(usage), usage a Usage (src/langfuse.go:44-49, 370)
MarshalUsage(usage) ==
    <<"{">>
      \o OmitEmpty(<<
            <<"prompt_tokens", usage.PromptTokens, usage.PromptTokens = 0>>,
            <<"completion_tokens", usage.CompletionTokens,
              usage.CompletionTokens = 0>>,
            <<"total_tokens", usage.TotalTokens, usage.TotalTokens = 0>> >>)
      \o <<"}">>

\* json.Marshal(cost), cost a Cost (src/langfuse.go:51-56, 378): an amount
\* that is not a number makes Marshal fail
MarshalCost(cost) ==
    IF cost.Total.nan \/ cost.Input.nan \/ cost.Output.nan THEN Str0
    ELSE <<"{">>
           \o OmitEmpty(<< <<"total", cost.Total, FloatIsZero(cost.Total)>>,
                           <<"input", cost.Input, FloatIsZero(cost.Input)>>,
                           <<"output", cost.Output, FloatIsZero(cost.Output)>> >>)
           \o <<"}">>

\* a pointer field is << >> (nil) or <<v>>; a nil pointer and an empty
\* slice are the empty values of their types
IsNilOrEmpty(x) == x = << >>

\* an encoding that writes the entries of Other after the named parameters
MarshalParamsWithOther(params) ==
    IF \E f \in {params.Temperature, params.TopP, params.FrequencyPenalty,
                  params.PresencePenalty} : f # << >> /\ f[1].nan
    THEN Str0
    ELSE
    <<"{">>
      \o OmitEmpty(<<
            <<"temperature", params.Temperature, IsNilOrEmpty(params.Temperature)>>,
            <<"max_tokens", params.MaxTokens, IsNilOrEmpty(params.MaxTokens)>>,
            <<"top_p", params.TopP, IsNilOrEmpty(params.TopP)>>,
            <<"frequency_penalty", params.FrequencyPenalty,
              IsNilOrEmpty(params.FrequencyPenalty)>>,
            <<"presence_penalty", params.PresencePenalty,
              IsNilOrEmpty(params.PresencePenalty)>>,
            <<"stop", params.Stop, IsNilOrEmpty(params.Stop)>> >>)
      \o (IF params.Other = << >> THEN << >> ELSE Tail(params.Other))
      \o <<"}">>

\* json.Marshal(params), params a GenerationParams (src/langfuse.go:58-67,
\* 386): Other is tagged "-" and never written; a parameter that is not a
\* number makes Marshal fail
MarshalParams(params) ==
    IF \E f \in {params.Temperature, params.TopP, params.FrequencyPenalty,
                  params.PresencePenalty} : f # << >> /\ f[1].nan
    THEN Str0
    ELSE
    <<"{">>
      \o OmitEmpty(<<
            <<"temperature", params.Temperature, IsNilOrEmpty(params.Temperature)>>,
            <<"max_tokens", params.MaxTokens, IsNilOrEmpty(params.MaxTokens)>>,
            <<"top_p", params.TopP, IsNilOrEmpty(params.TopP)>>,
            <<"frequency_penalty", params.FrequencyPenalty,
              IsNilOrEmpty(params.FrequencyPenalty)>>,
            <<"presence_penalty", params.PresencePenalty,
              IsNilOrEmpty(params.PresencePenalty)>>,
            <<"stop", params.Stop, IsNilOrEmpty(params.Stop)>> >>)
      \o <<"}">>

\* A Go value passed as interface{} is [go |-> its type, v |-> its content].
\* json.Marshal fails on a channel or a function.
GoString(x) == [go |-> "string", v |-> x]
GoMap(x) == [go |-> "map", v |-> x]

MarshalAny(value) ==
    IF value.go \in {"chan", "func"} THEN Str0
    ELSE <<"json", value.go, value.v>>

\* json.Marshal(tags), tags a []string
MarshalTags(tags) == <<"json", "[]string", tags>>

(***************************************************************************)
(* The OpenTelemetry span the SDK's tracer returns, and the three methods  *)
(* the wrapper calls on it.  A span that has ended records nothing more.   *)
(***************************************************************************)

CtxBackground == <<"none", 0>>
CtxOfSpan(i) == <<"span", i>>
CtxRemote(j) == <<"ctx", j>>

\* tracer.Start(ctx, name) when Len(spans) spans exist: the new span is a
\* child of the span ctx carries, in that span's trace; with none it is a
\* root span of a new trace
Start(tracer, ctx, name) ==
    [ name     |-> name,
      traceID  |-> IF ctx[1] = "none" THEN <<"gen", Len(spans) + 1>>
                   ELSE IF ctx[1] = "span" THEN spans[ctx[2]].traceID
                   ELSE ctx,
      parent   |-> ctx,
      attrs    |-> << >>,
      status   |-> "Unset",
      ended    |-> FALSE,
      provider |-> tracer,
      handedTo |-> 0 ]

SetAttributes(sp, key, value) ==
    IF sp.ended THEN sp
    ELSE [sp EXCEPT !.attrs = [k \in DOMAIN sp.attrs \cup {key} |->
                                   IF k = key THEN value ELSE sp.attrs[k]]]

\* codes.Unset < codes.Error < codes.Ok: a status is never lowered
StatusRank(code) == CASE code = "Unset" -> 0 [] code = "Error" -> 1 [] code = "Ok" -> 2

SetStatus(sp, code) ==
    IF sp.ended \/ StatusRank(sp.status) > StatusRank(code) THEN sp
    ELSE [sp EXCEPT !.status = code]

\* span.End(): the span is handed to its provider's processor, and so to the
\* provider's exporter, unless the provider was shut down
\* a span that ends in the process-wide provider instead of its own
EndSpanGlobal(sp) ==
    IF sp.ended THEN sp
    ELSE [sp EXCEPT !.ended = TRUE,
                    !.handedTo = IF providers[global].shutdown THEN 0
                                 ELSE providers[global].exporter]

EndSpan(sp) ==
    IF sp.ended THEN sp
    ELSE [sp EXCEPT !.ended = TRUE,
                    !.handedTo = IF providers[sp.provider].shutdown THEN 0
                                 ELSE providers[sp.provider].exporter]

(***************************************************************************)
(* The options (src/langfuse.go:213-263, 277-322, 357-422, 456-493).  An   *)
(* option is [o |-> which, v |-> its argument]; applying it to the wrapper *)
(* writes to the wrapper's span.                                           *)
(***************************************************************************)
Opt(which, arg) == [o |-> which, v |-> arg]

\* the keys of a metadata map whose value is a Go string
StringKeys(metadata) == {key \in DOMAIN metadata : metadata[key].go = "string"}

\* for key, value := range metadata { if str, ok := value.(string); ok {
\*     span.SetAttributes(attribute.String(prefix + key, str)) } }
\* a loop that writes every entry, whatever the type of its value
SetMetadataAnyValue(sp, prefix, metadata) ==
    IF sp.ended THEN sp
    ELSE [sp EXCEPT !.attrs =
            [k \in DOMAIN sp.attrs \cup {prefix \o key : key \in DOMAIN metadata} |->
                IF \E key \in DOMAIN metadata : k = prefix \o key
                THEN metadata[CHOOSE key \in DOMAIN metadata : k = prefix \o key].v
                ELSE sp.attrs[k]]]

SetMetadata(sp, prefix, metadata) ==
    IF sp.ended THEN sp
    ELSE [sp EXCEPT !.attrs =
            [k \in DOMAIN sp.attrs \cup {prefix \o key : key \in StringKeys(metadata)} |->
                IF \E key \in StringKeys(metadata) : k = prefix \o key
                THEN metadata[CHOOSE key \in StringKeys(metadata) : k = prefix \o key].v
                ELSE sp.attrs[k]]]

\* a switch in which only ERROR sets the status Error
LevelStatusErrorOnly(level) ==
    CASE level = "ERROR" -> "Error"
      [] OTHER           -> "Ok"

\* the switch of WithSpanLevel and WithEventLevel
LevelStatus(level) ==
    CASE level = "ERROR"   -> "Error"
      [] level = "WARNING" -> "Error"
      [] OTHER             -> "Ok"

SetLevel(sp, level) == SetStatus(SetAttributes(sp, KeyLevel, level), LevelStatus(level))

ApplyTraceOption(sp, opt) ==
    CASE opt.o = "UserID"    -> SetAttributes(sp, KeyUserID, opt.v)
      [] opt.o = "SessionID" -> SetAttributes(sp, KeySessionID, opt.v)
      [] opt.o = "Tags"      -> SetAttributes(sp, KeyTags, MarshalTags(opt.v))
      [] opt.o = "Metadata"  -> SetMetadata(sp, PrefixTraceMetadata, opt.v)
      [] opt.o = "Input"     -> SetAttributes(sp, KeyTraceInput, MarshalAny(opt.v))
      [] opt.o = "Output"    -> SetAttributes(sp, KeyTraceOutput, MarshalAny(opt.v))

ApplySpanOption(sp, opt) ==
    CASE opt.o = "Metadata" -> SetMetadata(sp, PrefixObservationMetadata, opt.v)
      [] opt.o = "Input"    -> SetAttributes(sp, KeyInput, MarshalAny(opt.v))
      [] opt.o = "Output"   -> SetAttributes(sp, KeyOutput, MarshalAny(opt.v))
      [] opt.o = "Level"    -> SetLevel(sp, opt.v)

ApplyGenerationOption(sp, opt) ==
    CASE opt.o = "Model"     -> SetAttributes(sp, KeyModel, opt.v)
      [] opt.o = "Usage"     -> SetAttributes(sp, KeyUsage, MarshalUsage(opt.v))
      [] opt.o = "Cost"      -> SetAttributes(sp, KeyCost, MarshalCost(opt.v))
      [] opt.o = "Params"    -> SetAttributes(sp, KeyParams, MarshalParams(opt.v))
      [] opt.o = "Input"     -> SetAttributes(sp, KeyInput, MarshalAny(opt.v))
      [] opt.o = "Output"    -> SetAttributes(sp, KeyOutput, MarshalAny(opt.v))
      [] opt.o = "StartTime" -> SetAttributes(sp, KeyCompletionStart, <<"RFC3339", opt.v>>)
      [] opt.o = "Prompt"    -> SetAttributes(
                                  SetAttributes(sp, KeyPromptName, opt.v.name),
                                  KeyPromptVersion, opt.v.version)

ApplyEventOption(sp, opt) ==
    CASE opt.o = "Metadata" -> SetMetadata(sp, PrefixObservationMetadata, opt.v)
      [] opt.o = "Input"    -> SetAttributes(sp, KeyInput, MarshalAny(opt.v))
      [] opt.o = "Level"    -> SetLevel(sp, opt.v)

\* for _, opt := range opts { opt(x) }
RECURSIVE ApplyTraceOptions(_, _)
ApplyTraceOptions(sp, opts) ==
    IF opts = << >> THEN sp
    ELSE ApplyTraceOptions(ApplyTraceOption(sp, Head(opts)), Tail(opts))

RECURSIVE ApplySpanOptions(_, _)
ApplySpanOptions(sp, opts) ==
    IF opts = << >> THEN sp
    ELSE ApplySpanOptions(ApplySpanOption(sp, Head(opts)), Tail(opts))

RECURSIVE ApplyGenerationOptions(_, _)
ApplyGenerationOptions(sp, opts) ==
    IF opts = << >> THEN sp
    ELSE ApplyGenerationOptions(ApplyGenerationOption(sp, Head(opts)), Tail(opts))

RECURSIVE ApplyEventOptions(_, _)
ApplyEventOptions(sp, opts) ==
    IF opts = << >> THEN sp
    ELSE ApplyEventOptions(ApplyEventOption(sp, Head(opts)), Tail(opts))

(***************************************************************************)
(* The wrapper's operations on traces and observations.                    *)
(***************************************************************************)
ObservationTypeSpan == "span"
ObservationTypeGeneration == "generation"
ObservationTypeEvent == "event"

\* src/langfuse.go:184-196: the attributes CreateTrace takes from the client
TraceLevelAttributes(sp, c) ==
    LET s1 == IF c.release # "" THEN SetAttributes(sp, KeyRelease, c.release) ELSE sp
        s2 == IF c.environment # "" THEN SetAttributes(s1, KeyEnvironment, c.environment)
              ELSE s1
    IN  IF c.isPublic THEN SetAttributes(s2, KeyPublic, c.isPublic) ELSE s2

\* Client.CreateTrace (src/langfuse.go:181-211)
CreateTrace(c, ctx, name, opts) ==
    LET sp == ApplyTraceOptions(
                  TraceLevelAttributes(Start(clients[c].tracer, ctx, name), clients[c]),
                  opts)
    IN  /\ spans' = Append(spans, sp)
        /\ traces' = Append(traces, [ client  |-> c,
                                      ctx     |-> CtxOfSpan(Len(spans) + 1),
                                      span    |-> Len(spans) + 1,
                                      traceID |-> sp.traceID,
                                      opts    |-> opts,
                                      calls   |-> 0 ])
        /\ UNCHANGED <<clients, providers, exporters, global, call, result, printed, obs>>

\* Trace.End (src/langfuse.go:266-268)
TraceEnd(t) ==
    /\ spans' = [spans EXCEPT ![traces[t].span] = EndSpan(@)]
    /\ UNCHANGED <<clients, providers, exporters, global, call, result, printed,
                   traces, obs>>

\* the context CreateSpan, CreateGeneration and CreateEvent start their span in
ObservationCtxBackground(t) == CtxBackground

ObservationCtx(t) == traces[t].ctx

\* the span of a new observation: started in the trace's context, typed,
\* then given the options; an event's span is ended after them
ObservationSpanEndFirst(t, kind, name, opts) ==
    LET s0 == SetAttributes(Start(clients[traces[t].client].tracer, ObservationCtx(t), name),
                            KeyType, kind)
    IN  CASE kind = ObservationTypeSpan       -> ApplySpanOptions(s0, opts)
          [] kind = ObservationTypeGeneration -> ApplyGenerationOptions(s0, opts)
          [] kind = ObservationTypeEvent      -> ApplyEventOptions(EndSpan(s0), opts)

\* every observation typed as a span
ObservationSpanTypedSpan(t, kind, name, opts) ==
    LET s0 == SetAttributes(Start(clients[traces[t].client].tracer, ObservationCtx(t), name),
                            KeyType, ObservationTypeSpan)
    IN  CASE kind = ObservationTypeSpan       -> ApplySpanOptions(s0, opts)
          [] kind = ObservationTypeGeneration -> ApplyGenerationOptions(s0, opts)
          [] kind = ObservationTypeEvent      -> EndSpan(ApplyEventOptions(s0, opts))

ObservationSpan(t, kind, name, opts) ==
    LET s0 == SetAttributes(Start(clients[traces[t].client].tracer, ObservationCtx(t), name),
                            KeyType, kind)
    IN  CASE kind = ObservationTypeSpan       -> ApplySpanOptions(s0, opts)
          [] kind = ObservationTypeGeneration -> ApplyGenerationOptions(s0, opts)
          [] kind = ObservationTypeEvent      -> EndSpan(ApplyEventOptions(s0, opts))

CreateObservation(t, kind, name, opts) ==
    /\ spans' = Append(spans, ObservationSpan(t, kind, name, opts))
    /\ obs' = Append(obs, [ kind  |-> kind,
                            trace |-> t,
                            span  |-> Len(spans) + 1,
                            opts  |-> opts,
                            calls |-> 0 ])
    /\ UNCHANGED <<clients, providers, exporters, global, call, result, printed, traces>>

\* Trace.CreateSpan (src/langfuse.go:325-343)
CreateSpan(t, name, opts) == CreateObservation(t, ObservationTypeSpan, name, opts)

\* Trace.CreateGeneration (src/langfuse.go:425-443)
CreateGeneration(t, name, opts) ==
    CreateObservation(t, ObservationTypeGeneration, name, opts)

\* Trace.CreateEvent (src/langfuse.go:496-516)
CreateEvent(t, name, opts) == CreateObservation(t, ObservationTypeEvent, name, opts)

\* Span.End (src/langfuse.go:346-348)
SpanEnd(o) ==
    /\ obs[o].kind = ObservationTypeSpan
    /\ spans' = [spans EXCEPT ![obs[o].span] = EndSpan(@)]
    /\ UNCHANGED <<clients, providers, exporters, global, call, result, printed,
                   traces, obs>>

\* Generation.End (src/langfuse.go:446-448)
GenerationEnd(o) ==
    /\ obs[o].kind = ObservationTypeGeneration
    /\ spans' = [spans EXCEPT ![obs[o].span] = EndSpan(@)]
    /\ UNCHANGED <<clients, providers, exporters, global, call, result, printed,
                   traces, obs>>

\* a TraceOption called on a trace after its creation: opt(trace).  The
\* option writes to the trace's root span (src/langfuse.go:214-263); calls
\* counts the options called on the wrapper since it was created, and a
\* behaviour makes up to MaxCalls such calls.
TraceOptionCall(t, opt) ==
    /\ spans' = [spans EXCEPT ![traces[t].span] = ApplyTraceOption(@, opt)]
    /\ traces' = [traces EXCEPT ![t].calls = @ + 1]
    /\ UNCHANGED <<clients, providers, exporters, global, call, result, printed, obs>>

\* an option value called on a wrapper after its creation: opt(s), opt(g),
\* opt(e)
ObservationOptionCall(o, opt) ==
    /\ spans' = [spans EXCEPT ![obs[o].span] =
                    CASE obs[o].kind = ObservationTypeSpan -> ApplySpanOption(@, opt)
                      [] obs[o].kind = ObservationTypeGeneration ->
                            ApplyGenerationOption(@, opt)
                      [] obs[o].kind = ObservationTypeEvent -> ApplyEventOption(@, opt)]
    /\ obs' = [obs EXCEPT ![o].calls = @ + 1]
    /\ UNCHANGED <<clients, providers, exporters, global, call, result, printed, traces>>

\* the number of options called on the wrappers after their creation
CallsMade ==
    Cardinality({ w \in (DOMAIN traces) \X {"trace"} \X (1..MaxCalls) : w[3] <= traces[w[1]].calls })
      + Cardinality({ w \in (DOMAIN obs) \X {"obs"} \X (1..MaxCalls) : w[3] <= obs[w[1]].calls })

\* Client.Close (src/langfuse.go:168-170): the provider is shut down
Close(c) ==
    /\ providers' = [providers EXCEPT ![clients[c].provider].shutdown = TRUE]
    /\ UNCHANGED <<clients, exporters, global, call, result, printed, spans, traces, obs>>

(***************************************************************************)
(* The initial state, and the inputs the operations are driven with.       *)
(***************************************************************************)

ApiInit ==
    /\ clients = << >>
    /\ providers = << >>
    /\ exporters = << >>
    /\ global = 0
    /\ call = [made |-> FALSE,
               config |-> [PublicKey |-> Str0, SecretKey |-> Str0, BaseURL |-> Str0,
                           Release |-> "", Environment |-> "", IsPublic |-> FALSE],
               exporterOk |-> TRUE]
    /\ result = [client |-> 0, err |-> NoErr, cause |-> "", attempts |-> 0]
    /\ printed = << >>
    /\ spans = << >>
    /\ traces = << >>
    /\ obs = << >>

NoLocals == [client |-> 0, trace |-> 0, span |-> 0, generation |-> 0, exit |-> "running"]
NoEnv == [LANGFUSE_PUBLIC_KEY |-> Str0, LANGFUSE_SECRET_KEY |-> Str0,
          LANGFUSE_BASE_URL |-> Str0, LANGFUSE_RELEASE |-> "",
          LANGFUSE_ENVIRONMENT |-> ""]

Init ==
    /\ ApiInit
    /\ prog = "none"
    /\ pc = 0
    /\ locals = NoLocals
    /\ defers = << >>
    /\ env = NoEnv
    /\ data = << >>
    /\ out = << >>

PK == <<"p","k">>
SK == <<"s","k">>
HostH == <<"h">>

ConfigA == [PublicKey |-> PK, SecretKey |-> SK, BaseURL |-> Str0,
            Release |-> "", Environment |-> "", IsPublic |-> FALSE]
ConfigB == [PublicKey |-> PK \o <<"-","1">>, SecretKey |-> <<"s">>,
            BaseURL |-> SchemeHTTP \o HostH \o <<":","3">>,
            Release |-> "1.0.0", Environment |-> "dev", IsPublic |-> TRUE]

\* the base URLs NewClient is tried with
BaseURLs ==
    { Str0,
      DefaultBaseURL,
      SchemeHTTP \o HostH \o <<":","3">>,
      HostH \o <<".","i","o">>,
      <<"H","T","T","P",":","/","/">> \o HostH,
      <<"f","t","p",":","/","/">> \o HostH,
      SchemeHTTPS \o HostH \o <<"/","p","?","q","#","f">>,
      SchemeHTTP \o <<"u","@">> \o HostH,
      SchemeHTTP \o HostH \o <<" ","b">>,
      SchemeHTTPS \o HostH \o <<":","x">>,
      HostH \o <<"\n">>,
      SchemeHTTP \o HostH \o <<"/","a","\t","b">>,
      SchemeHTTP \o HostH \o <<"\r","b">>,
      SchemeHTTPS \o HostH \o <<"DEL">> }

\* the credentials NewClient is tried with: absent, and of lengths that make
\* "public:secret" of every length modulo 3
KeyPairs ==
    { <<Str0, Str0>>, <<PK, Str0>>, <<Str0, SK>>, <<PK, SK>>,
      <<PK, <<"s">> >>, <<PK \o <<"-","1">>, <<"s">> >> }

ConfigInputs ==
    { [ConfigA EXCEPT !.BaseURL = u] : u \in BaseURLs }
      \cup { [ConfigA EXCEPT !.PublicKey = kp[1], !.SecretKey = kp[2]] : kp \in KeyPairs }
      \cup { [ConfigB EXCEPT !.PublicKey = kp[1], !.SecretKey = kp[2],
                             !.BaseURL = HostH \o <<"\n">>] : kp \in KeyPairs }

\* the options the operations are driven with
MetadataMixed == [key \in {<<"k">>, <<"n">>} |->
                     IF key = <<"k">> THEN GoString("v") ELSE [go |-> "int", v |-> "7"]]

\* a metadata map with no string value: a number, a boolean, a nested map, nil
MetadataNonString ==
    [key \in {<<"n">>, <<"b">>, <<"m">>, <<"z">>} |->
        CASE key = <<"n">> -> [go |-> "float64", v |-> "1.5"]
          [] key = <<"b">> -> [go |-> "bool", v |-> "true"]
          [] key = <<"m">> -> [go |-> "map", v |-> "a: b"]
          [] key = <<"z">> -> [go |-> "nil", v |-> ""]]

UsageOf(p, c, t) == [PromptTokens |-> p, CompletionTokens |-> c, TotalTokens |-> t]
CostOf(t, i, o) == [Total |-> t, Input |-> i, Output |-> o]

\* the input lists are sequences, and an action picks an index
Usages == << UsageOf(0, 0, 0), UsageOf(45, 32, 77), UsageOf(0, 32, 32), UsageOf(45, 0, 45) >>
Costs == << CostOf(Float(0), Float(0), Float(0)),
            CostOf(Float(750), Float(150), Float(600)),
            CostOf(Float(750), Float(0), Float(0)),
            CostOf(FloatNaN, Float(150), Float(600)) >>

\* <<s[i], t[j]>> for every i and j, as one sequence
PairsOf(s, t) ==
    [k \in 1..(Len(s) * Len(t)) |->
        <<s[((k - 1) \div Len(t)) + 1], t[((k - 1) % Len(t)) + 1]>>]

TraceOptLists == << << >>,
                    <<Opt("UserID", "u1"), Opt("Input", GoString("q"))>>,
                    <<Opt("SessionID", "s1"), Opt("Tags", <<"a", "b">>),
                      Opt("Metadata", MetadataMixed), Opt("Output", GoString("a"))>>,
                    <<Opt("Metadata", MetadataNonString)>> >>
SpanOptLists == << << >>,
                   <<Opt("Input", GoString("q")), Opt("Level", "WARNING")>>,
                   <<Opt("Metadata", MetadataMixed), Opt("Output", [go |-> "chan", v |-> ""])>>,
                   <<Opt("Metadata", MetadataNonString)>>,
                   <<Opt("Input", GoString("q")), Opt("Metadata", MetadataNonString)>> >>
                \o [i \in 1..5 |->
                      <<Opt("Level", <<"DEBUG", "DEFAULT", "WARNING", "ERROR", "TRACE">>[i])>>]
\* the generation option lists; the GenerationParams values are: nothing
\* set, every parameter set, pointers to zero, a parameter that is not a
\* number, each with Other << >> (a nil map), <<"map">> (an empty map) and
\* <<"map", entries...>>
GenerationOptLists ==
    LET paramsOf(f, other) ==
            [ Temperature |-> f[1], MaxTokens |-> f[2], TopP |-> f[3],
              FrequencyPenalty |-> << >>, PresencePenalty |-> f[3],
              Stop |-> f[4], Other |-> other ]
        fields == << <<<< >>, << >>, << >>, << >>>>,
                     <<<<Float(700000)>>, <<500>>, <<Float(1000000)>>, <<"END">>>>,
                     <<<<Float(0)>>, <<0>>, << >>, << >>>>,
                     <<<<FloatNaN>>, <<500>>, << >>, << >>>> >>
        others == << << >>, <<"map">>, <<"map", <<"seed", "42">>, <<"temperature", "9">>>> >>
        params == PairsOf(fields, others)
    IN  << << >>, <<Opt("Model", "m")>>,
           <<Opt("Input", GoString("q")), Opt("Output", GoString("a")),
             Opt("StartTime", "t0"), Opt("Prompt", [name |-> "p", version |-> 1])>> >>
          \o PairsOf([i \in 1..Len(Usages) |-> Opt("Usage", Usages[i])],
                     [i \in 1..Len(Costs) |-> Opt("Cost", Costs[i])])
          \o [i \in 1..Len(params) |->
                <<Opt("Params", paramsOf(params[i][1], params[i][2]))>>]
EventOpts == << Opt("Input", GoString("q")), Opt("Level", "ERROR"),
                Opt("Level", "DEFAULT"), Opt("Metadata", MetadataMixed) >>
EventOptLists ==
    << << >>, <<Opt("Metadata", MetadataNonString)>> >>
      \o [i \in 1..Len(EventOpts) |-> <<EventOpts[i]>>]
      \o PairsOf(EventOpts, EventOpts)
      \o [i \in 1..5 |->
            <<Opt("Level", <<"DEBUG", "DEFAULT", "WARNING", "ERROR", "TRACE">>[i])>>]

otherVars == <<prog, pc, locals, defers, env, data, out>>

(***************************************************************************)
(* Spec: the API driven freely by a caller, with up to MaxClients clients  *)
(* and MaxSpans spans.                                                     *)
(***************************************************************************)
Next ==
    \/ \E config \in {ConfigA, ConfigB}, exporterOk \in BOOLEAN :
          /\ Len(clients) < MaxClients
          /\ NewClient(config, exporterOk)
          /\ UNCHANGED otherVars
    \/ \E c \in 1..Len(clients), name \in {"op"}, opts \in { << >> } :
          /\ Len(spans) < MaxSpans
          /\ CreateTrace(c, CtxBackground, name, opts)
          /\ UNCHANGED otherVars
    \/ \E t \in 1..Len(traces), name \in {"op"}, opts \in { << >> } :
          /\ Len(spans) < MaxSpans
          /\ CreateSpan(t, name, opts)
          /\ UNCHANGED otherVars
    \/ \E t \in 1..Len(traces), name \in {"op"}, opts \in { << >> } :
          /\ Len(spans) < MaxSpans
          /\ CreateGeneration(t, name, opts)
          /\ UNCHANGED otherVars
    \/ \E t \in 1..Len(traces), name \in {"op"}, opts \in { << >> } :
          /\ Len(spans) < MaxSpans
          /\ CreateEvent(t, name, opts)
          /\ UNCHANGED otherVars
    \/ \E t \in 1..Len(traces) : TraceEnd(t) /\ UNCHANGED otherVars
    \/ \E o \in 1..Len(obs) : SpanEnd(o) /\ UNCHANGED otherVars
    \/ \E o \in 1..Len(obs) : GenerationEnd(o) /\ UNCHANGED otherVars
    \/ \E c \in 1..Len(clients) : Close(c) /\ UNCHANGED otherVars

Spec == Init /\ [][Next]_vars

(***************************************************************************)
(* SpecNesting: one client, traces started in a context with or without a  *)
(* span of the caller's, up to MaxNestSpans spans, and up to MaxCalls      *)
(* options called on the wrappers after their creation.                    *)
(***************************************************************************)

NextNesting ==
    \/ /\ clients = << >>
       /\ NewClient(ConfigA, TRUE)
       /\ UNCHANGED otherVars
    \/ \E c \in 1..Len(clients), ctx \in {CtxBackground, CtxRemote(1)}, name \in {"op"}, opts \in { << >> } :
          /\ Len(spans) < MaxNestSpans
          /\ CreateTrace(c, ctx, name, opts)
          /\ UNCHANGED otherVars
    \/ \E t \in 1..Len(traces), name \in {"op"}, opts \in { << >> } :
          /\ Len(spans) < MaxNestSpans
          /\ CreateSpan(t, name, opts)
          /\ UNCHANGED otherVars
    \/ \E t \in 1..Len(traces), name \in {"op"}, opts \in { << >> } :
          /\ Len(spans) < MaxNestSpans
          /\ CreateGeneration(t, name, opts)
          /\ UNCHANGED otherVars
    \/ \E t \in 1..Len(traces), name \in {"op"}, opts \in { << >> } :
          /\ Len(spans) < MaxNestSpans
          /\ CreateEvent(t, name, opts)
          /\ UNCHANGED otherVars
    \/ \E t \in 1..Len(traces) :
          /\ CallsMade < MaxCalls
          /\ TraceOptionCall(t, Opt("Output", GoString("a")))
          /\ UNCHANGED otherVars
    \/ \E o \in 1..Len(obs) :
          /\ obs[o].kind = ObservationTypeSpan
          /\ CallsMade < MaxCalls
          /\ ObservationOptionCall(o, Opt("Level", "WARNING"))
          /\ UNCHANGED otherVars
    \/ \E o \in 1..Len(obs) :
          /\ obs[o].kind = ObservationTypeGeneration
          /\ CallsMade < MaxCalls
          /\ ObservationOptionCall(o, Opt("Model", "m"))
          /\ UNCHANGED otherVars
    \/ \E o \in 1..Len(obs) :
          /\ obs[o].kind = ObservationTypeEvent
          /\ CallsMade < MaxCalls
          /\ ObservationOptionCall(o, Opt("Level", "ERROR"))
          /\ UNCHANGED otherVars

SpecNesting == Init /\ [][NextNesting]_vars

(***************************************************************************)
(* SpecConfig: NewClient over the configurations.                          *)
(***************************************************************************)
NextConfig ==
    \E config \in ConfigInputs, exporterOk \in BOOLEAN :
        /\ Len(clients) < MaxConfigClients
        /\ NewClient(config, exporterOk)
        /\ UNCHANGED otherVars

SpecConfig == Init /\ [][NextConfig]_vars

(***************************************************************************)
(* SpecOptions: one client, one trace, and up to MaxObs observations       *)
(* created with the options; an event's options are also called on the     *)
(* event after CreateEvent has returned.                                   *)
(***************************************************************************)
NextOptions ==
    \/ /\ clients = << >>
       /\ NewClient(ConfigB, TRUE)
       /\ UNCHANGED otherVars
    \/ \E c \in 1..Len(clients), name \in {"op"}, i \in DOMAIN TraceOptLists :
          /\ traces = << >>
          /\ CreateTrace(c, CtxBackground, name, TraceOptLists[i])
          /\ UNCHANGED otherVars
    \/ \E t \in 1..Len(traces), name \in {"op"}, i \in DOMAIN SpanOptLists :
          /\ Len(obs) < MaxObs
          /\ CreateSpan(t, name, SpanOptLists[i])
          /\ UNCHANGED otherVars
    \/ \E t \in 1..Len(traces), name \in {"op"}, i \in DOMAIN GenerationOptLists :
          /\ Len(obs) < MaxObs
          /\ CreateGeneration(t, name, GenerationOptLists[i])
          /\ UNCHANGED otherVars
    \/ \E t \in 1..Len(traces), name \in {"op"}, i \in DOMAIN EventOptLists :
          /\ Len(obs) < MaxObs
          /\ CreateEvent(t, name, EventOptLists[i])
          /\ UNCHANGED otherVars
    \/ \E o \in 1..Len(obs), i \in DOMAIN EventOpts :
          /\ obs[o].kind = ObservationTypeEvent
          /\ CallsMade < MaxCalls
          /\ ObservationOptionCall(o, EventOpts[i])
          /\ UNCHANGED otherVars
    \/ \E t \in 1..Len(traces) : TraceEnd(t) /\ UNCHANGED otherVars
    \/ \E o \in 1..Len(obs) : SpanEnd(o) /\ UNCHANGED otherVars
    \/ \E o \in 1..Len(obs) : GenerationEnd(o) /\ UNCHANGED otherVars

SpecOptions == Init /\ [][NextOptions]_vars

(***************************************************************************)
(* SpecCalls: one client, one trace and up to MaxObs observations created  *)
(* without options; every option is called on the trace and on the         *)
(* observations after their creation (an option is an exported function    *)
(* value: WithTraceOutput(x)(trace)), up to MaxCalls calls in all.         *)
(***************************************************************************)
NextCalls ==
    \/ /\ clients = << >>
       /\ NewClient(ConfigB, TRUE)
       /\ UNCHANGED otherVars
    \/ \E c \in 1..Len(clients), name \in {"op"} :
          /\ traces = << >>
          /\ CreateTrace(c, CtxBackground, name, << >>)
          /\ UNCHANGED otherVars
    \/ \E t \in 1..Len(traces), name \in {"op"} :
          /\ Len(obs) < MaxObs
          /\ CreateSpan(t, name, << >>)
          /\ UNCHANGED otherVars
    \/ \E t \in 1..Len(traces), name \in {"op"} :
          /\ Len(obs) < MaxObs
          /\ CreateGeneration(t, name, << >>)
          /\ UNCHANGED otherVars
    \/ \E t \in 1..Len(traces), name \in {"op"} :
          /\ Len(obs) < MaxObs
          /\ CreateEvent(t, name, << >>)
          /\ UNCHANGED otherVars
    \/ \E t \in 1..Len(traces), i \in DOMAIN TraceOptLists, j \in 1..4 :
          /\ CallsMade < MaxCalls
          /\ j \in DOMAIN TraceOptLists[i]
          /\ TraceOptionCall(t, TraceOptLists[i][j])
          /\ UNCHANGED otherVars
    \/ \E t \in 1..Len(traces), i \in 1..2 :
          /\ CallsMade < MaxCalls
          /\ TraceOptionCall(t, << Opt("UserID", "u2"),
                                   Opt("Metadata", [key \in {<<"k">>} |-> GoString("v")]) >>[i])
          /\ UNCHANGED otherVars
    \/ \E o \in 1..Len(obs), i \in DOMAIN SpanOptLists, j \in 1..4 :
          /\ obs[o].kind = ObservationTypeSpan
          /\ CallsMade < MaxCalls
          /\ j \in DOMAIN SpanOptLists[i]
          /\ ObservationOptionCall(o, SpanOptLists[i][j])
          /\ UNCHANGED otherVars
    \/ \E o \in 1..Len(obs), i \in DOMAIN GenerationOptLists, j \in 1..4 :
          /\ obs[o].kind = ObservationTypeGeneration
          /\ CallsMade < MaxCalls
          /\ j \in DOMAIN GenerationOptLists[i]
          /\ ObservationOptionCall(o, GenerationOptLists[i][j])
          /\ UNCHANGED otherVars
    \/ \E o \in 1..Len(obs), i \in DOMAIN EventOptLists, j \in 1..2 :
          /\ obs[o].kind = ObservationTypeEvent
          /\ CallsMade < MaxCalls
          /\ j \in DOMAIN EventOptLists[i]
          /\ ObservationOptionCall(o, EventOptLists[i][j])
          /\ UNCHANGED otherVars
    \/ \E t \in 1..Len(traces) : TraceEnd(t) /\ UNCHANGED otherVars
    \/ \E o \in 1..Len(obs) : SpanEnd(o) /\ UNCHANGED otherVars
    \/ \E o \in 1..Len(obs) : GenerationEnd(o) /\ UNCHANGED otherVars

SpecCalls == Init /\ [][NextCalls]_vars

(***************************************************************************)
(* SpecBase64: base64Encode on a byte sequence, and NewClient with the     *)
(* credentials whose "public:secret" is that byte sequence.                *)
(***************************************************************************)

InitBase64 ==
    /\ ApiInit
    /\ prog = "none"
    /\ pc = 0
    /\ locals = NoLocals
    /\ defers = << >>
    /\ env = NoEnv
    /\ data \in UNION { [1..n -> {0, 255, ByteOf("p"), ByteOf(":"), ByteOf("s")}] :
                         n \in 0..MaxDataLen }
    /\ out = << >>

Encode ==
    /\ pc = 0
    /\ out' = base64Encode(data)
    /\ pc' = 1
    /\ UNCHANGED <<apiVars, prog, locals, defers, env, data>>

NextBase64 ==
    \/ Encode
    \/ \E kp \in { <<a, b>> : a \in {<<"p">>, <<"p","p">>}, b \in {<<"s">>, <<"s","s">>} } :
          /\ clients = << >>
          /\ data = Bytes(kp[1] \o <<":">> \o kp[2])
          /\ NewClient([ConfigA EXCEPT !.PublicKey = kp[1], !.SecretKey = kp[2]], TRUE)
          /\ UNCHANGED otherVars

SpecBase64 == InitBase64 /\ [][NextBase64]_vars

(***************************************************************************)
(* The example programs (src/examples/simpleTraceExample.go,               *)
(* src/examples/llmGenerationExample.go, and the error-handling and        *)
(* complex-trace examples, src/unnamed/part_000 and part_001).  A program  *)
(* is its statements in order; a statement names the line it is on, and    *)
(* the local variable it assigns or uses is the wrapper kind's.            *)
(***************************************************************************)
Stmt(line, op, name, opts) == [line |-> line, op |-> op, name |-> name, opts |-> opts]

\* src/examples/simpleTraceExample.go:41-45
SimpleTraceMetadata ==
    [key \in {<<"u","s","e","r","_","t","i","e","r">>,
                 <<"q","u","e","r","y","_","t","y","p","e">>,
                 <<"c","h","a","n","n","e","l">>} |->
        IF key = <<"u","s","e","r","_","t","i","e","r">>
          THEN GoString("premium")
        ELSE IF key = <<"q","u","e","r","y","_","t","y","p","e">>
          THEN GoString("technical")
          ELSE GoString("web")]

\* src/examples/simpleTraceExample.go:56-59
SimpleSpanMetadata ==
    [key \in {<<"p","r","o","c","e","s","s","i","n","g","_","t","y","p","e">>,
                 <<"l","a","n","g","u","a","g","e">>} |->
        IF key = <<"p","r","o","c","e","s","s","i","n","g","_","t","y","p","e">>
          THEN GoString("nlp")
          ELSE GoString("en")]

\* src/unnamed/part_000:61-64
ErrorSpanMetadata ==
    [key \in {<<"r","e","t","r","y","_","c","o","u","n","t">>,
                 <<"t","i","m","e","o","u","t","_","d","u","r","a","t","i","o","n">>} |->
        IF key = <<"r","e","t","r","y","_","c","o","u","n","t">>
          THEN GoString("3")
          ELSE GoString("5s")]

\* src/unnamed/part_001:86-89
ComplexEventMetadata ==
    [key \in {<<"r","e","v","i","e","w","e","r">>,
                 <<"t","i","m","e","s","t","a","m","p">>} |->
        IF key = <<"r","e","v","i","e","w","e","r">>
          THEN GoString("ai-assistant")
          ELSE [go |-> "int64", v |-> "time.Now().Unix()"]]

ProgramSimple ==
    << Stmt(15, "NewClient", "", << >>),
       Stmt(26, "DeferClose", "", << >>),
       Stmt(37, "CreateTrace", "user-query",
            << Opt("UserID", "user-123"),
               Opt("SessionID", "session-456"),
               Opt("Tags", <<"customer-support", "urgent">>),
               Opt("Metadata", SimpleTraceMetadata),
               Opt("Input", GoMap("query, context")) >>),
       Stmt(51, "DeferTraceEnd", "", << >>),
       Stmt(54, "CreateSpan", "process-query",
            << Opt("Input", GoString("How do I integrate Langfuse with Go?")),
               Opt("Metadata", SimpleSpanMetadata) >>),
       Stmt(66, "CreateSpan", "process-query",
            << Opt("Output", GoString("Processed query for Go integration help")) >>),
       Stmt(69, "SpanEnd", "", << >>),
       Stmt(72, "CreateTrace", "user-query",
            << Opt("Output", GoMap("response, confidence")) >>),
       Stmt(83, "Return", "", << >>) >>

ProgramGeneration ==
    << Stmt(15, "NewClient", "", << >>),
       Stmt(26, "DeferClose", "", << >>),
       Stmt(37, "CreateTrace", "llm-chat",
            << Opt("UserID", "user-789"),
               Opt("Input", GoString("Write a Go function to sort a slice")) >>),
       Stmt(41, "DeferTraceEnd", "", << >>),
       Stmt(44, "CreateGeneration", "openai-completion",
            << Opt("Model", "gpt-4o-mini"),
               Opt("Input", [go |-> "[]map", v |-> "system, user"]),
               Opt("Params", [ Temperature      |-> <<Float(700000)>>,
                               MaxTokens        |-> <<500>>,
                               TopP             |-> <<Float(1000000)>>,
                               FrequencyPenalty |-> << >>,
                               PresencePenalty  |-> << >>,
                               Stop             |-> << >>,
                               Other            |-> << >> ]),
               Opt("StartTime", "time.Now()") >>),
       Stmt(68, "CreateGeneration", "openai-completion",
            << Opt("Output", GoMap("content, finish_reason")),
               Opt("Usage", UsageOf(45, 32, 77)),
               Opt("Cost", CostOf(Float(750), Float(150), Float(600))) >>),
       Stmt(86, "GenerationEnd", "", << >>),
       Stmt(92, "Return", "", << >>) >>

ProgramError ==
    << Stmt(15, "NewClient", "", << >>),
       Stmt(26, "DeferClose", "", << >>),
       Stmt(37, "CreateTrace", "failed-api-call",
            << Opt("UserID", "user-error-test"),
               Opt("Input", GoString("Test error handling")) >>),
       Stmt(41, "DeferTraceEnd", "", << >>),
       Stmt(44, "CreateSpan", "external-api-call",
            << Opt("Input", GoMap("endpoint, method")),
               Opt("Level", "ERROR") >>),
       Stmt(56, "CreateSpan", "external-api-call",
            << Opt("Output", GoMap("error, status_code")),
               Opt("Metadata", ErrorSpanMetadata) >>),
       Stmt(66, "SpanEnd", "", << >>),
       Stmt(69, "CreateEvent", "api-error-occurred",
            << Opt("Input", GoMap("error_type, service, impact")),
               Opt("Level", "ERROR") >>),
       Stmt(79, "CreateEvent", "retry-attempted",
            << Opt("Input", GoMap("attempt, delay")),
               Opt("Level", "WARNING") >>),
       Stmt(91, "Return", "", << >>) >>

ProgramComplex ==
    << Stmt(15, "NewClient", "", << >>),
       Stmt(26, "DeferClose", "", << >>),
       Stmt(37, "CreateTrace", "code-review-workflow",
            << Opt("UserID", "developer-456"),
               Opt("SessionID", "review-session-123"),
               Opt("Tags", <<"code-review", "golang", "automated">>),
               Opt("Input", GoMap("repository, pr_number, files_changed")) >>),
       Stmt(47, "DeferTraceEnd", "", << >>),
       Stmt(50, "CreateSpan", "code-analysis",
            << Opt("Input", GoMap("files, analysis_type")) >>),
       Stmt(59, "SpanEnd", "", << >>),
       Stmt(62, "CreateGeneration", "code-review-llm",
            << Opt("Model", "claude-3-5-sonnet-20241022"),
               Opt("Input", GoMap("role, code, context")),
               Opt("Usage", UsageOf(1250, 340, 1590)) >>),
       Stmt(76, "GenerationEnd", "", << >>),
       Stmt(79, "CreateEvent", "review-completed",
            << Opt("Input", GoMap("review_score, issues_found, auto_approved")),
               Opt("Level", "DEFAULT"),
               Opt("Metadata", ComplexEventMetadata) >>),
       Stmt(98, "Return", "", << >>) >>

Programs == {"simple", "generation", "error", "complex"}

Program(p) ==
    CASE p = "simple"     -> ProgramSimple
      [] p = "generation" -> ProgramGeneration
      [] p = "error"      -> ProgramError
      [] p = "complex"    -> ProgramComplex

\* the statement the program is at
Cur == Program(prog)[pc]
AtOp(op) == prog \in Programs /\ locals.exit = "running" /\ Cur.op = op

\* getEnvOrDefault
getEnvOrDefault(value, defaultValue) == IF value # "" THEN value ELSE defaultValue
getEnvOrDefaultURL(value, defaultValue) == IF value # Str0 THEN value ELSE defaultValue

\* the Config each main builds (lines 15-22 of each example)
EnvConfig ==
    [ PublicKey   |-> env.LANGFUSE_PUBLIC_KEY,
      SecretKey   |-> env.LANGFUSE_SECRET_KEY,
      BaseURL     |-> getEnvOrDefaultURL(env.LANGFUSE_BASE_URL, DefaultBaseURL),
      Release     |-> getEnvOrDefault(env.LANGFUSE_RELEASE, "1.0.0"),
      Environment |-> getEnvOrDefault(env.LANGFUSE_ENVIRONMENT, "development"),
      IsPublic    |-> FALSE ]

Envs ==
    [ LANGFUSE_PUBLIC_KEY  : {Str0, PK},
      LANGFUSE_SECRET_KEY  : {Str0, SK},
      LANGFUSE_BASE_URL    : {Str0, SchemeHTTP \o HostH \o <<":","3">>,
                              SchemeHTTP \o HostH \o <<" ","b">>},
      LANGFUSE_RELEASE     : {"", "2.0"},
      LANGFUSE_ENVIRONMENT : {""} ]

InitExamples ==
    /\ ApiInit
    /\ prog \in Programs
    /\ pc = 1
    /\ locals = NoLocals
    /\ defers = << >>
    /\ env \in Envs
    /\ data = << >>
    /\ out = << >>

\* getEnvOrFail on an unset key: log.Fatalf ends the process
ExEnvFatal ==
    /\ AtOp("NewClient")
    /\ env.LANGFUSE_PUBLIC_KEY = Str0 \/ env.LANGFUSE_SECRET_KEY = Str0
    /\ locals' = [locals EXCEPT !.exit = "fatal"]
    /\ UNCHANGED <<apiVars, prog, pc, defers, env, data, out>>

\* client, err := langfuse.NewClient(...); if err != nil { log.Fatal(...) }
ExNewClient ==
    /\ AtOp("NewClient")
    /\ env.LANGFUSE_PUBLIC_KEY # Str0 /\ env.LANGFUSE_SECRET_KEY # Str0
    /\ \E exporterOk \in BOOLEAN : NewClient(EnvConfig, exporterOk)
    /\ locals' = IF result'.err = NoErr THEN [locals EXCEPT !.client = result'.client]
                 ELSE [locals EXCEPT !.exit = "fatal"]
    /\ pc' = IF result'.err = NoErr THEN pc + 1 ELSE pc
    /\ UNCHANGED <<prog, defers, env, data, out>>

\* defer func() { ... client.Close(ctx) ... }()
ExDeferClose ==
    /\ AtOp("DeferClose")
    /\ defers' = Append(defers, [call |-> "Close", arg |-> locals.client])
    /\ pc' = pc + 1
    /\ UNCHANGED <<apiVars, prog, locals, env, data, out>>

\* defer trace.End(): the receiver is the trace the variable holds now
ExDeferTraceEnd ==
    /\ AtOp("DeferTraceEnd")
    /\ defers' = Append(defers, [call |-> "TraceEnd", arg |-> locals.trace])
    /\ pc' = pc + 1
    /\ UNCHANGED <<apiVars, prog, locals, env, data, out>>

\* trace := / trace = client.CreateTrace(ctx, name, opts...)
ExCreateTrace ==
    /\ AtOp("CreateTrace")
    /\ CreateTrace(locals.client, CtxBackground, Cur.name, Cur.opts)
    /\ locals' = [locals EXCEPT !.trace = Len(traces')]
    /\ pc' = pc + 1
    /\ UNCHANGED <<prog, defers, env, data, out>>

\* span := / span = trace.CreateSpan(name, opts...)
ExCreateSpan ==
    /\ AtOp("CreateSpan")
    /\ CreateSpan(locals.trace, Cur.name, Cur.opts)
    /\ locals' = [locals EXCEPT !.span = Len(obs')]
    /\ pc' = pc + 1
    /\ UNCHANGED <<prog, defers, env, data, out>>

\* generation := / generation = trace.CreateGeneration(name, opts...)
ExCreateGeneration ==
    /\ AtOp("CreateGeneration")
    /\ CreateGeneration(locals.trace, Cur.name, Cur.opts)
    /\ locals' = [locals EXCEPT !.generation = Len(obs')]
    /\ pc' = pc + 1
    /\ UNCHANGED <<prog, defers, env, data, out>>

\* trace.CreateEvent(name, opts...): the result is dropped
ExCreateEvent ==
    /\ AtOp("CreateEvent")
    /\ CreateEvent(locals.trace, Cur.name, Cur.opts)
    /\ pc' = pc + 1
    /\ UNCHANGED <<prog, locals, defers, env, data, out>>

\* span.End()
ExSpanEnd ==
    /\ AtOp("SpanEnd")
    /\ SpanEnd(locals.span)
    /\ pc' = pc + 1
    /\ UNCHANGED <<prog, locals, defers, env, data, out>>

\* generation.End()
ExGenerationEnd ==
    /\ AtOp("GenerationEnd")
    /\ GenerationEnd(locals.generation)
    /\ pc' = pc + 1
    /\ UNCHANGED <<prog, locals, defers, env, data, out>>

\* main returns: the deferred calls run, the last deferred first
ExRunDeferred ==
    /\ AtOp("Return")
    /\ defers # << >>
    /\ LET d == defers[Len(defers)]
       IN  IF d.call = "Close" THEN Close(d.arg) ELSE TraceEnd(d.arg)
    /\ defers' = SubSeq(defers, 1, Len(defers) - 1)
    /\ UNCHANGED <<prog, pc, locals, env, data, out>>

ExExit ==
    /\ AtOp("Return")
    /\ defers = << >>
    /\ locals' = [locals EXCEPT !.exit = "returned"]
    /\ UNCHANGED <<apiVars, prog, pc, defers, env, data, out>>

NextExamples ==
    \/ ExEnvFatal
    \/ ExNewClient
    \/ ExDeferClose
    \/ ExDeferTraceEnd
    \/ ExCreateTrace
    \/ ExCreateSpan
    \/ ExCreateGeneration
    \/ ExCreateEvent
    \/ ExSpanEnd
    \/ ExGenerationEnd
    \/ ExRunDeferred
    \/ ExExit

SpecExamples == InitExamples /\ [][NextExamples]_vars

(***************************************************************************)
(*                         The claims                                      *)
(***************************************************************************)

\* C1 (SpecConfig): a NewClient call whose PublicKey or SecretKey is empty
\* returns no client and a non-nil error, writes nothing, creates no exporter
\* and no tracer provider, and leaves the process-wide tracer provider as it
\* was, whatever the other fields of the configuration are.
C1_MissingCredentialsRejected ==
    [][ (call'.made /\ (call'.config.PublicKey = Str0 \/ call'.config.SecretKey = Str0))
          => /\ result'.client = 0
             /\ result'.err # NoErr
             /\ printed' = << >>
             /\ UNCHANGED <<clients, exporters, providers, global>> ]_vars

\* a client exists, and a later call with a public key, no secret key and a
\* base URL that does not parse was rejected for its credentials, the first
\* client's provider still being the global one
C1_Witness ==
    /\ call.made
    /\ call.config.PublicKey # Str0
    /\ call.config.SecretKey = Str0
    /\ result.client = 0
    /\ result.err = ErrCredentials
    /\ call.config.BaseURL # Str0
    /\ Parse(WithScheme(call.config.BaseURL)).err # NoErr
    /\ Len(clients) = 1
    /\ global = clients[1].provider

\* C2 (SpecConfig): a NewClient call that fails on the base URL or on the
\* creation of the exporter returns no client and an error that carries its
\* cause, has called the exporter's constructor at most once (exactly once
\* when it is the constructor that failed), and has installed no tracer
\* provider; and every call returns a client exactly when its error is nil.
C2_FailureReturnsNoClient ==
    [][ call'.made =>
          /\ (result'.client # 0) <=> (result'.err = NoErr)
          /\ (call'.config.PublicKey # Str0 /\ call'.config.SecretKey # Str0
                /\ Parse(WithScheme(Defaulted(call'.config))).err # NoErr)
               => /\ result'.client = 0
                  /\ result'.err = ErrBaseURL
                  /\ result'.cause = Parse(WithScheme(Defaulted(call'.config))).err
                  /\ result'.attempts = 0
                  /\ UNCHANGED <<clients, exporters, providers, global>>
          /\ (call'.config.PublicKey # Str0 /\ call'.config.SecretKey # Str0
                /\ Parse(WithScheme(Defaulted(call'.config))).err = NoErr
                /\ ~call'.exporterOk)
               => /\ result'.client = 0
                  /\ result'.err = ErrExporter
                  /\ result'.cause # ""
                  /\ result'.attempts = 1
                  /\ UNCHANGED <<clients, exporters, providers, global>> ]_vars

\* a client exists, and a later call failed in the exporter's constructor
C2_Witness ==
    /\ call.made
    /\ ~call.exporterOk
    /\ result.client = 0
    /\ result.err = ErrExporter
    /\ Len(clients) = 1
    /\ global = clients[1].provider

\* C3 as stated (Spec): no step changes the process-wide tracer provider.
C3_NoGlobalState == [][global' = global]_vars

\* C3 as amended (Spec): a NewClient call that returns a client makes that
\* client's provider the process-wide tracer provider, replacing the one
\* installed before; every other step (a failed NewClient, the creation and
\* the end of traces and observations, Close) leaves it unchanged.
C3_OnlyNewClientInstalls ==
    [][ IF Len(clients') > Len(clients)
        THEN global' = clients'[Len(clients')].provider /\ global' # global
        ELSE global' = global ]_vars

\* two clients were constructed and a trace was created and ended: the
\* process-wide provider is the second client's
C3_Witness ==
    /\ Len(clients) = 2
    /\ global = clients[2].provider
    /\ global # clients[1].provider
    /\ \E i \in 1..Len(spans) : spans[i].ended

\* C7 (SpecConfig): a call with an empty BaseURL runs as the same call with
\* BaseURL "https://cloud.langfuse.com" does: the exporter's endpoint is
\* cloud.langfuse.com, it uses TLS, and the client's base URL is that URL;
\* a client made with a non-empty BaseURL records the BaseURL it was given.
CloudHost == <<"c","l","o","u","d",".","l","a","n","g","f","u","s","e",".","c","o","m">>

C7_DefaultBaseURL ==
    (call.made /\ result.client # 0) =>
        LET c == clients[result.client]
            e == exporters[providers[c.provider].exporter]
        IN  /\ call.config.BaseURL = Str0 =>
                /\ c.baseURL = SchemeHTTPS \o CloudHost
                /\ e.endpoint = CloudHost
                /\ ~e.insecure
                /\ NewClientRun(call.config, call.exporterOk)
                     = NewClientRun([call.config EXCEPT !.BaseURL = SchemeHTTPS \o CloudHost],
                                    call.exporterOk)
            /\ call.config.BaseURL # Str0 => c.baseURL = call.config.BaseURL

\* a client was made from a configuration with no BaseURL
C7_Witness ==
    /\ call.made
    /\ call.config.BaseURL = Str0
    /\ result.client # 0
    /\ exporters[providers[clients[result.client].provider].exporter].endpoint = CloudHost

\* RFC 4648, section 4, written over the bit string of the data: the value of
\* a 6-bit group is mapped to A-Z, a-z, 0-9, + and /; the last group is
\* filled with zero bits, and the text is filled with = to a multiple of four.
Rfc4648Char(v) ==
    IF v < 26 THEN AsciiPrintable[65 + v - 31]
    ELSE IF v < 52 THEN AsciiPrintable[97 + (v - 26) - 31]
    ELSE IF v < 62 THEN AsciiPrintable[48 + (v - 52) - 31]
    ELSE IF v = 62 THEN "+" ELSE "/"

Rfc4648Bit(d, k) == (d[(k \div 8) + 1] \div Pow2(7 - (k % 8))) % 2

Rfc4648Sextet(d, g) ==
    LET bit(k) == IF k < 8 * Len(d) THEN Rfc4648Bit(d, k) ELSE 0
    IN  32 * bit(6 * g) + 16 * bit(6 * g + 1) + 8 * bit(6 * g + 2)
          + 4 * bit(6 * g + 3) + 2 * bit(6 * g + 4) + bit(6 * g + 5)

Rfc4648Encode(d) ==
    LET groups == (8 * Len(d) + 5) \div 6
        total  == 4 * ((Len(d) + 2) \div 3)
    IN  [j \in 1..total |->
            IF j <= groups THEN Rfc4648Char(Rfc4648Sextet(d, j - 1)) ELSE "="]

\* the standard decoder: the value of each character that is not =, six bits
\* each, read back as whole bytes
Rfc4648Value(c) == CHOOSE v \in 0..63 : Rfc4648Char(v) = c

Rfc4648Decode(t) ==
    LET chars == SelectSeq(t, LAMBDA c : c # "=")
        bit(k) == (Rfc4648Value(chars[(k \div 6) + 1]) \div Pow2(5 - (k % 6))) % 2
        n == (6 * Len(chars)) \div 8
    IN  [j \in 1..n |->
            128 * bit(8 * (j - 1)) + 64 * bit(8 * (j - 1) + 1)
              + 32 * bit(8 * (j - 1) + 2) + 16 * bit(8 * (j - 1) + 3)
              + 8 * bit(8 * (j - 1) + 4) + 4 * bit(8 * (j - 1) + 5)
              + 2 * bit(8 * (j - 1) + 6) + bit(8 * (j - 1) + 7)]

\* C9 (SpecBase64): base64Encode(data) is the standard, padded RFC 4648
\* encoding of data (a standard decoder gives data back, and the text has
\* four characters for every three bytes begun), and the exporter of a client
\* sends the header Authorization: "Basic " followed by that encoding of
\* PublicKey ":" SecretKey.
C9_StandardBase64 ==
    /\ pc = 1 =>
         /\ out = Rfc4648Encode(data)
         /\ Len(out) = 4 * ((Len(data) + 2) \div 3)
         /\ Rfc4648Decode(out) = data
    /\ \A i \in 1..Len(clients) :
         exporters[providers[clients[i].provider].exporter].headers.Authorization
           = <<"B","a","s","i","c"," ">>
               \o Rfc4648Encode(Bytes(clients[i].publicKey \o <<":">> \o clients[i].secretKey))

\* four bytes "p:ss" were encoded, with two characters of padding, and a
\* client was made with these credentials
C9_Witness ==
    /\ pc = 1
    /\ Len(data) = 4
    /\ Len(out) = 8
    /\ out[7] = "=" /\ out[8] = "="
    /\ Len(clients) = 1
    /\ clients[1].publicKey = <<"p">>
    /\ Rfc4648Decode(out) = data

\* what an event's span holds for the i-th option of the list it was created
\* with: the option's attribute is there, with the option's value unless a
\* later option of the list writes the same attribute
C4_OptionWritten(sp, opts, i) ==
    LET opt == opts[i]
        last == \A j \in (i + 1)..Len(opts) : opts[j].o # opt.o
    IN  CASE opt.o = "Input" ->
               /\ KeyInput \in DOMAIN sp.attrs
               /\ last => sp.attrs[KeyInput] = <<"json", opt.v.go, opt.v.v>>
          [] opt.o = "Level" ->
               /\ KeyLevel \in DOMAIN sp.attrs
               /\ last => sp.attrs[KeyLevel] = opt.v
          [] opt.o = "Metadata" ->
               \A key \in DOMAIN opt.v :
                   opt.v[key].go = "string" =>
                       /\ (PrefixObservationMetadata \o key) \in DOMAIN sp.attrs
                       /\ last => sp.attrs[PrefixObservationMetadata \o key] = opt.v[key].v

\* the status the level options of the list leave: none without a level
\* option, Ok when a level other than ERROR and WARNING was given (Ok is
\* never lowered), Error otherwise
C4_StatusWritten(opts) ==
    IF \A i \in 1..Len(opts) : opts[i].o # "Level" THEN "Unset"
    ELSE IF \E i \in 1..Len(opts) :
               opts[i].o = "Level" /\ opts[i].v \notin {"ERROR", "WARNING"}
         THEN "Ok" ELSE "Error"

C4_EventWritten(o) ==
    LET sp == spans[obs[o].span]
    IN  /\ sp.ended
        /\ KeyType \in DOMAIN sp.attrs
        /\ sp.attrs[KeyType] = "event"
        /\ \A i \in 1..Len(obs[o].opts) : C4_OptionWritten(sp, obs[o].opts, i)
        /\ sp.status = C4_StatusWritten(obs[o].opts)

\* C4 (SpecOptions): when CreateEvent has returned, the event's span is
\* ended and holds the observation type "event", the attribute of every
\* option and the status of the level options; and no later step, an option
\* applied to the returned Event included, changes that span.
C4_EventInstantaneous ==
    /\ [](\A o \in 1..Len(obs) : obs[o].kind = "event" => C4_EventWritten(o))
    /\ [][\A o \in 1..Len(obs) :
             obs[o].kind = "event" => spans'[obs[o].span] = spans[obs[o].span]]_vars

\* an event made with an input and the level ERROR: its span is ended with
\* both attributes and the status Error
C4_Witness ==
    \E o \in 1..Len(obs) :
        /\ obs[o].kind = "event"
        /\ Len(obs[o].opts) = 2
        /\ obs[o].opts[1].o = "Input"
        /\ obs[o].opts[2].o = "Level"
        /\ spans[obs[o].span].ended
        /\ spans[obs[o].span].status = "Error"
        /\ KeyInput \in DOMAIN spans[obs[o].span].attrs

\* an observation is in its trace: it has the trace's ID, and its parent is
\* the trace's root span
C5_Nested(o) ==
    LET t == traces[obs[o].trace]
        sp == spans[obs[o].span]
    IN  /\ sp.traceID = t.traceID
        /\ sp.traceID = spans[t.span].traceID
        /\ sp.parent = <<"span", t.span>>

\* C5 as stated (SpecNesting): every observation is nested in its trace, and
\* observations of different traces never share a trace ID.
C5_NestedAndDisjoint ==
    /\ \A o \in 1..Len(obs) : C5_Nested(o)
    /\ \A o1, o2 \in 1..Len(obs) :
          obs[o1].trace # obs[o2].trace
            => spans[obs[o1].span].traceID # spans[obs[o2].span].traceID

\* C5 as amended (SpecNesting): every observation has its trace's ID and the
\* trace's root span as its parent; observations of different traces share a
\* trace ID exactly when both traces were created from contexts that carry a
\* span of one and the same trace, and so never when a trace was created
\* from a context without a span.
C5_NestedInTrace ==
    /\ \A o \in 1..Len(obs) : C5_Nested(o)
    /\ \A o1, o2 \in 1..Len(obs) :
          obs[o1].trace # obs[o2].trace =>
            LET r1 == spans[traces[obs[o1].trace].span]
                r2 == spans[traces[obs[o2].trace].span]
            IN  (spans[obs[o1].span].traceID = spans[obs[o2].span].traceID)
                  <=> (r1.parent[1] # "none" /\ r2.parent[1] # "none"
                         /\ r1.parent = r2.parent)

\* two traces made from the background context and one made from a caller's
\* span context, with observations in two of them
C5_Witness ==
    \E o1, o2 \in 1..Len(obs) :
        /\ obs[o1].trace # obs[o2].trace
        /\ spans[traces[obs[o1].trace].span].parent[1] = "none"
        /\ spans[traces[obs[o2].trace].span].parent[1] = "ctx"
        /\ spans[obs[o1].span].traceID # spans[obs[o2].span].traceID
        /\ spans[obs[o2].span].parent = <<"span", traces[obs[o2].trace].span>>

\* C6 as stated (SpecExamples): when main returns and the next deferred call
\* is Client.Close, every span the program started is ended.
C6_AllEndedBeforeClose ==
    (AtOp("Return") /\ defers # << >> /\ defers[Len(defers)].call = "Close")
        => \A i \in 1..Len(spans) : spans[i].ended

\* the members of an encoded object, between its braces
C8_HasMember(a, name, value) ==
    \E j \in 2..(Len(a) - 1) : a[j][1] = name /\ a[j][2] = value
C8_HasName(a, name) == \E j \in 2..(Len(a) - 1) : a[j][1] = name

\* the generations made with WithGenerationUsage(u), WithGenerationCost(c)
C8_UsageCostGenerations ==
    { o \in 1..Len(obs) :
        /\ obs[o].kind = "generation"
        /\ Len(obs[o].opts) = 2
        /\ obs[o].opts[1].o = "Usage"
        /\ obs[o].opts[2].o = "Cost" }

\* C8 as stated (SpecOptions): usage_details encodes all three token counts
\* and cost_details all three amounts, zero included.
C8_AllFieldsEncoded ==
    \A o \in C8_UsageCostGenerations :
        LET u == obs[o].opts[1].v
            c == obs[o].opts[2].v
            a == spans[obs[o].span].attrs
        IN  /\ C8_HasMember(a[KeyUsage], "prompt_tokens", u.PromptTokens)
            /\ C8_HasMember(a[KeyUsage], "completion_tokens", u.CompletionTokens)
            /\ C8_HasMember(a[KeyUsage], "total_tokens", u.TotalTokens)
            /\ C8_HasMember(a[KeyCost], "total", c.Total)
            /\ C8_HasMember(a[KeyCost], "input", c.Input)
            /\ C8_HasMember(a[KeyCost], "output", c.Output)

C8_Count(b1, b2, b3) ==
    (IF b1 THEN 1 ELSE 0) + (IF b2 THEN 1 ELSE 0) + (IF b3 THEN 1 ELSE 0)

\* C8 as amended (SpecOptions): usage_details is an object with exactly the
\* token counts of u that are not zero, and cost_details an object with
\* exactly the amounts of c that are not zero, each under its name and with
\* its value; a zero field is left out; when an amount of c is not a finite
\* number, cost_details is the empty string.
C8_NonZeroFieldsEncoded ==
    \A o \in C8_UsageCostGenerations :
        LET u == obs[o].opts[1].v
            c == obs[o].opts[2].v
            a == spans[obs[o].span].attrs
            usageOk(name, n) ==
                IF n # 0 THEN C8_HasMember(a[KeyUsage], name, n)
                ELSE ~C8_HasName(a[KeyUsage], name)
            costOk(name, f) ==
                IF f.micro # 0 THEN C8_HasMember(a[KeyCost], name, f)
                ELSE ~C8_HasName(a[KeyCost], name)
        IN  /\ KeyUsage \in DOMAIN a /\ KeyCost \in DOMAIN a
            /\ usageOk("prompt_tokens", u.PromptTokens)
            /\ usageOk("completion_tokens", u.CompletionTokens)
            /\ usageOk("total_tokens", u.TotalTokens)
            /\ Len(a[KeyUsage]) = 2 + C8_Count(u.PromptTokens # 0,
                                               u.CompletionTokens # 0,
                                               u.TotalTokens # 0)
            /\ IF c.Total.nan \/ c.Input.nan \/ c.Output.nan
               THEN a[KeyCost] = << >>
               ELSE /\ costOk("total", c.Total)
                    /\ costOk("input", c.Input)
                    /\ costOk("output", c.Output)
                    /\ Len(a[KeyCost]) = 2 + C8_Count(c.Total.micro # 0,
                                                      c.Input.micro # 0,
                                                      c.Output.micro # 0)

\* a generation given a usage with no prompt tokens and a cost with only a
\* total: usage_details has two members and cost_details one
C8_Witness ==
    \E o \in C8_UsageCostGenerations :
        /\ obs[o].opts[1].v.PromptTokens = 0
        /\ obs[o].opts[1].v.CompletionTokens # 0
        /\ ~obs[o].opts[2].v.Total.nan
        /\ obs[o].opts[2].v.Input.micro = 0
        /\ Len(spans[obs[o].span].attrs[KeyUsage]) = 4
        /\ Len(spans[obs[o].span].attrs[KeyCost]) = 3

\* C10 as stated (SpecExamples): a span that holds an output, a usage or a
\* cost is the one that holds the input, a trace that holds an output is the
\* one that holds the input, and no name is used for two observations of a
\* trace or for two traces.
C10_ResultOnOpenedObservation ==
    /\ \A i \in 1..Len(spans) :
          LET a == DOMAIN spans[i].attrs
          IN  /\ (KeyOutput \in a \/ KeyUsage \in a \/ KeyCost \in a) => KeyInput \in a
              /\ KeyTraceOutput \in a => KeyTraceInput \in a
    /\ \A o1, o2 \in 1..Len(obs) :
          (o1 # o2 /\ obs[o1].trace = obs[o2].trace)
            => spans[obs[o1].span].name # spans[obs[o2].span].name
    /\ \A t1, t2 \in 1..Len(traces) :
          t1 # t2 => spans[traces[t1].span].name # spans[traces[t2].span].name

\* the observations made with one level option, WithSpanLevel(l) or
\* WithEventLevel(l), and nothing else
C11_LevelObservations ==
    { o \in 1..Len(obs) :
        /\ obs[o].kind \in {"span", "event"}
        /\ Len(obs[o].opts) = 1
        /\ obs[o].opts[1].o = "Level" }

\* C11 (SpecOptions): a span or an event created with one level option holds
\* the level as given in langfuse.observation.level, and its status is Error
\* when the level is ERROR or WARNING and Ok for every other level; the span
\* option and the event option write the same to the same span.
C11_LevelRecorded ==
    \A o \in C11_LevelObservations :
        LET sp == spans[obs[o].span]
            l == obs[o].opts[1].v
            before == [sp EXCEPT !.attrs = [k \in {KeyType} |-> sp.attrs[KeyType]],
                                 !.status = "Unset", !.ended = FALSE, !.handedTo = 0]
        IN  /\ KeyLevel \in DOMAIN sp.attrs
            /\ sp.attrs[KeyLevel] = l
            /\ sp.status = IF l = "ERROR" \/ l = "WARNING" THEN "Error" ELSE "Ok"
            /\ ApplySpanOption(before, obs[o].opts[1]) = ApplyEventOption(before, obs[o].opts[1])
            /\ ApplySpanOption(before, obs[o].opts[1]).status = sp.status

\* a span created with the level WARNING has the status Error
C11_Witness ==
    \E o \in C11_LevelObservations :
        /\ obs[o].kind = "span"
        /\ obs[o].opts[1].v = "WARNING"
        /\ spans[obs[o].span].status = "Error"
        /\ spans[obs[o].span].attrs[KeyLevel] = "WARNING"

\* the exporter of a client
C12_ExporterOf(i) == exporters[providers[clients[i].provider].exporter]

\* a base URL begins with the seven characters http://
C12_BeginsHTTP(b) ==
    /\ Len(b) >= 7
    /\ <<b[1], b[2], b[3], b[4], b[5], b[6], b[7]>> = <<"h","t","t","p",":","/","/">>

\* C12 (SpecConfig): the exporter of a client sends without TLS exactly when
\* the base URL the client was configured with begins with the lower-case
\* prefix http://; with https://, with no prefix, with another scheme and
\* with HTTP:// it sends over TLS.
C12_InsecureOnlyForHTTP ==
    /\ \A i \in 1..Len(clients) :
          C12_ExporterOf(i).insecure <=> C12_BeginsHTTP(clients[i].baseURL)
    /\ (call.made /\ result.client # 0) =>
          (C12_ExporterOf(result.client).insecure <=> C12_BeginsHTTP(call.config.BaseURL))

\* one client configured with http://h:3 sends without TLS, and one
\* configured with HTTP://h sends over TLS
C12_Witness ==
    \E i, j \in 1..Len(clients) :
        /\ clients[i].baseURL = <<"h","t","t","p",":","/","/","h",":","3">>
        /\ C12_ExporterOf(i).insecure
        /\ clients[j].baseURL = <<"H","T","T","P",":","/","/","h">>
        /\ ~C12_ExporterOf(j).insecure

\* the host part of a base URL, read off its text: what follows the ://
\* of the scheme (https:// being put in front when the text begins with
\* neither http:// nor https://), up to the first /, ? or #, and after the
\* last @
C13_HostPart(b) ==
    LET https == <<"h","t","t","p","s",":","/","/">>
        full == IF C12_BeginsHTTP(b) \/ (Len(b) >= 8 /\ SubSeq(b, 1, 8) = https)
                THEN b ELSE https \o b
        rest == IF C12_BeginsHTTP(full) THEN SubSeq(full, 8, Len(full))
                ELSE SubSeq(full, 9, Len(full))
        stops == {k \in 1..Len(rest) : rest[k] \in {"/", "?", "#"}}
        authority == IF stops = {} THEN rest
                     ELSE SubSeq(rest, 1, (CHOOSE k \in stops : \A n \in stops : k <= n) - 1)
        ats == {k \in 1..Len(authority) : authority[k] = "@"}
    IN  IF ats = {} THEN authority
        ELSE SubSeq(authority, (CHOOSE k \in ats : \A n \in ats : k >= n) + 1,
                    Len(authority))

\* C13 (SpecConfig): for every base URL NewClient accepts, the exporter's
\* endpoint is the host part of the base URL, with the port when there is
\* one, and the request path is /api/public/otel/v1/traces: the path, the
\* query and the fragment of the base URL are not used.
C13_EndpointIsHost ==
    \A i \in 1..Len(clients) :
        /\ C12_ExporterOf(i).endpoint = C13_HostPart(clients[i].baseURL)
        /\ C12_ExporterOf(i).urlPath = "/api/public/otel/v1/traces"

\* a client configured with https://h/p?q#f exports to the host h
C13_Witness ==
    \E i \in 1..Len(clients) :
        /\ clients[i].baseURL = <<"h","t","t","p","s",":","/","/","h","/","p","?","q","#","f">>
        /\ C12_ExporterOf(i).endpoint = <<"h">>
        /\ C12_ExporterOf(i).urlPath = "/api/public/otel/v1/traces"

\* C14 (SpecOptions): the langfuse.observation.type attribute of every
\* observation is the kind of the call that created it, whatever options the
\* call was given; the root span of a trace does not have the attribute,
\* whatever options the trace was given; no option, called on the trace or
\* on the observation after its creation, would write, change or remove the
\* attribute; and no later step changes or removes the attribute of an
\* observation.
C14_TypeFixed ==
    /\ [](/\ \A o \in 1..Len(obs) :
                /\ obs[o].kind \in {"span", "generation", "event"}
                /\ KeyType \in DOMAIN spans[obs[o].span].attrs
                /\ spans[obs[o].span].attrs[KeyType] = obs[o].kind
          /\ \A t \in 1..Len(traces) :
                KeyType \notin DOMAIN spans[traces[t].span].attrs
          /\ \A o \in 1..Len(obs) :
                LET sp == spans[obs[o].span]
                    kept(after) == /\ KeyType \in DOMAIN after.attrs
                                   /\ after.attrs[KeyType] = obs[o].kind
                IN  CASE obs[o].kind = "span" ->
                           \A i \in DOMAIN SpanOptLists, j \in 1..4 :
                               j \in DOMAIN SpanOptLists[i] =>
                                   kept(ApplySpanOption(sp, SpanOptLists[i][j]))
                      [] obs[o].kind = "generation" ->
                           \A i \in DOMAIN GenerationOptLists, j \in 1..4 :
                               j \in DOMAIN GenerationOptLists[i] =>
                                   kept(ApplyGenerationOption(sp, GenerationOptLists[i][j]))
                      [] obs[o].kind = "event" ->
                           \A i \in DOMAIN EventOptLists, j \in 1..2 :
                               j \in DOMAIN EventOptLists[i] =>
                                   kept(ApplyEventOption(sp, EventOptLists[i][j]))
          /\ \A t \in 1..Len(traces), i \in DOMAIN TraceOptLists, j \in 1..4 :
                j \in DOMAIN TraceOptLists[i] =>
                    KeyType \notin DOMAIN
                        ApplyTraceOption(spans[traces[t].span], TraceOptLists[i][j]).attrs)
    /\ [][\A o \in 1..Len(obs) :
             /\ KeyType \in DOMAIN spans'[obs[o].span].attrs
             /\ spans'[obs[o].span].attrs[KeyType] = spans[obs[o].span].attrs[KeyType]]_vars

\* a generation created with an input, an output, a start time and a prompt
\* in a trace created with options: the generation is typed "generation",
\* the root span is not typed
C14_Witness ==
    \E o \in 1..Len(obs) :
        /\ obs[o].kind = "generation"
        /\ Len(obs[o].opts) = 4
        /\ spans[obs[o].span].attrs[KeyType] = "generation"
        /\ spans[obs[o].span].ended
        /\ Len(traces[obs[o].trace].opts) > 0
        /\ KeyType \notin DOMAIN spans[traces[obs[o].trace].span].attrs

\* what a span holds of the metadata options of the list it was created
\* with: one attribute, prefix plus key, for each entry whose value is a
\* string, with that string; none for any other entry; and no other
\* attribute with the prefix
C15_Recorded(sp, opts, prefix) ==
    LET given == {i \in 1..Len(opts) : opts[i].o = "Metadata"}
    IN  /\ \A i \in given : \A key \in DOMAIN opts[i].v :
              IF opts[i].v[key].go = "string"
              THEN /\ (prefix \o key) \in DOMAIN sp.attrs
                   /\ sp.attrs[prefix \o key] = opts[i].v[key].v
              ELSE (prefix \o key) \notin DOMAIN sp.attrs
        /\ \A k \in DOMAIN sp.attrs :
              (Len(k) >= Len(prefix) /\ SubSeq(k, 1, Len(prefix)) = prefix)
                => \E i \in given : \E key \in DOMAIN opts[i].v :
                       k = prefix \o key /\ opts[i].v[key].go = "string"

\* a list of one metadata option whose map has no string value
C15_OnlyNonString(opts) ==
    /\ Len(opts) = 1
    /\ opts[1].o = "Metadata"
    /\ \A key \in DOMAIN opts[1].v : opts[1].v[key].go # "string"

\* C15 (SpecOptions): WithTraceMetadata, WithSpanMetadata and
\* WithEventMetadata record exactly the entries whose value is a string, each
\* as the attribute named by the prefix and the key; an entry with another
\* value (a number, a boolean, a map, nil) sets no attribute and no status;
\* a map with no string value leaves the attributes as they are without the
\* option.
C15_OnlyStringMetadata ==
    /\ \A t \in 1..Len(traces) :
          /\ C15_Recorded(spans[traces[t].span], traces[t].opts,
                          <<"l","a","n","g","f","u","s","e",".","t","r","a","c","e",".",
                            "m","e","t","a","d","a","t","a",".">>)
          /\ C15_OnlyNonString(traces[t].opts) =>
                /\ DOMAIN spans[traces[t].span].attrs
                     = {KeyRelease, KeyEnvironment, KeyPublic}
                /\ spans[traces[t].span].status = "Unset"
    /\ \A o \in 1..Len(obs) :
          obs[o].kind \in {"span", "event"} =>
             /\ C15_Recorded(spans[obs[o].span], obs[o].opts,
                             <<"l","a","n","g","f","u","s","e",".","o","b","s","e","r","v",
                               "a","t","i","o","n",".","m","e","t","a","d","a","t","a",".">>)
             /\ C15_OnlyNonString(obs[o].opts) =>
                   /\ DOMAIN spans[obs[o].span].attrs = {KeyType}
                   /\ spans[obs[o].span].status = "Unset"

\* a trace created with a map of a number, a boolean, a map and nil, and in
\* it a span created with a map of one string and one number: the span has
\* the string's attribute and not the number's
C15_Witness ==
    \E o \in 1..Len(obs) :
        /\ obs[o].kind = "span"
        /\ Len(obs[o].opts) = 2
        /\ obs[o].opts[1].o = "Metadata"
        /\ \E key \in DOMAIN obs[o].opts[1].v : obs[o].opts[1].v[key].go = "string"
        /\ \E key \in DOMAIN obs[o].opts[1].v : obs[o].opts[1].v[key].go = "int"
        /\ (PrefixObservationMetadata \o <<"k">>) \in DOMAIN spans[obs[o].span].attrs
        /\ (PrefixObservationMetadata \o <<"n">>) \notin DOMAIN spans[obs[o].span].attrs
        /\ C15_OnlyNonString(traces[obs[o].trace].opts)
        /\ Cardinality(DOMAIN traces[obs[o].trace].opts[1].v) = 4

\* the client a span was created through: the client of its trace
C16_ClientOf(i) ==
    IF \E t \in 1..Len(traces) : traces[t].span = i
    THEN traces[CHOOSE t \in 1..Len(traces) : traces[t].span = i].client
    ELSE traces[obs[CHOOSE o \in 1..Len(obs) : obs[o].span = i].trace].client

\* C16 (Spec): every client has a tracer provider and an exporter of its own;
\* a span created through a client belongs to that client's provider, and
\* when it ends it is handed to that client's exporter (the client's endpoint
\* and credentials), or to none when that client was closed before, whichever
\* client was constructed last and whichever other client was closed; a step
\* that shuts a provider down changes no other provider.
C16_OwnProvider ==
    /\ [](/\ \A c1, c2 \in 1..Len(clients) :
                c1 # c2 => /\ clients[c1].provider # clients[c2].provider
                           /\ providers[clients[c1].provider].exporter
                                # providers[clients[c2].provider].exporter
          /\ \A i \in 1..Len(spans) :
                LET c == clients[C16_ClientOf(i)]
                    e == providers[c.provider].exporter
                IN  /\ spans[i].provider = c.provider
                    /\ spans[i].handedTo \in {0, e}
                    /\ exporters[e].endpoint = C13_HostPart(c.baseURL)
                    /\ exporters[e].headers.Authorization
                         = <<"B","a","s","i","c"," ">>
                             \o Rfc4648Encode(Bytes(c.publicKey \o <<":">> \o c.secretKey)))
    /\ [][/\ \A i \in 1..Len(spans) :
                (~spans[i].ended /\ spans'[i].ended) =>
                    LET p == clients[C16_ClientOf(i)].provider
                    IN  spans'[i].handedTo
                          = IF providers[p].shutdown THEN 0 ELSE providers[p].exporter
          /\ \A p \in 1..Len(providers) :
                providers'[p] # providers[p] =>
                    /\ providers'[p] = [providers[p] EXCEPT !.shutdown = TRUE]
                    /\ \A q \in 1..Len(providers) : q # p => providers'[q] = providers[q]
                    /\ spans' = spans]_vars

\* two clients with different endpoints, the second constructed last and
\* closed; a trace created through the first client was ended and handed to
\* the first client's exporter
C16_Witness ==
    /\ Len(clients) = 2
    /\ global = clients[2].provider
    /\ providers[clients[2].provider].shutdown
    /\ ~providers[clients[1].provider].shutdown
    /\ exporters[providers[clients[1].provider].exporter].endpoint
         # exporters[providers[clients[2].provider].exporter].endpoint
    /\ \E t \in 1..Len(traces) :
          /\ traces[t].client = 1
          /\ spans[traces[t].span].ended
          /\ spans[traces[t].span].handedTo = providers[clients[1].provider].exporter

\* the generations made with WithGenerationParams(p) and nothing else
C17_ParamsGenerations ==
    { o \in 1..Len(obs) :
        /\ obs[o].kind = "generation"
        /\ Len(obs[o].opts) = 1
        /\ obs[o].opts[1].o = "Params" }

\* C17 (SpecOptions): langfuse.observation.model.parameters is an object
\* with exactly the named parameters that are present (a nil pointer and an
\* empty Stop list are left out, a pointer to zero is written), each under
\* its name and with its value, or the empty string when a parameter is not
\* a number; it holds nothing of Other, and is what it is for the same
\* parameters with a nil Other.
C17_OtherNeverWritten ==
    \A o \in C17_ParamsGenerations :
        LET p == obs[o].opts[1].v
            a == spans[obs[o].span].attrs
            floats == {p.Temperature, p.TopP, p.FrequencyPenalty, p.PresencePenalty}
            written(name, x) ==
                IF x # << >> THEN C8_HasMember(a[KeyParams], name, x)
                ELSE ~C8_HasName(a[KeyParams], name)
        IN  /\ KeyParams \in DOMAIN a
            /\ a[KeyParams] = MarshalParams([p EXCEPT !.Other = << >>])
            /\ IF \E f \in floats : f # << >> /\ f[1].nan
               THEN a[KeyParams] = << >>
               ELSE /\ written("temperature", p.Temperature)
                    /\ written("max_tokens", p.MaxTokens)
                    /\ written("top_p", p.TopP)
                    /\ written("frequency_penalty", p.FrequencyPenalty)
                    /\ written("presence_penalty", p.PresencePenalty)
                    /\ written("stop", p.Stop)
                    /\ ~C8_HasName(a[KeyParams], "seed")
                    /\ Len(a[KeyParams])
                         = 2 + Cardinality({n \in 1..6 :
                                 <<p.Temperature, p.MaxTokens, p.TopP, p.FrequencyPenalty,
                                   p.PresencePenalty, p.Stop>>[n] # << >>})

\* a generation given a temperature and a token limit of zero and an Other
\* map with the entries seed and temperature: the attribute has the two
\* named parameters and nothing else
C17_Witness ==
    \E o \in C17_ParamsGenerations :
        /\ obs[o].opts[1].v.Temperature = <<Float(0)>>
        /\ obs[o].opts[1].v.MaxTokens = <<0>>
        /\ Len(obs[o].opts[1].v.Other) = 3
        /\ Len(spans[obs[o].span].attrs[KeyParams]) = 4
        /\ C8_HasMember(spans[obs[o].span].attrs[KeyParams], "temperature", <<Float(0)>>)

============================================================================
